---- MODULE Spec2Model ----
(***************************************************************************)
(* Model of createPersistStore (src/unnamed/part_003): a zustand store     *)
(* bound to up to three persistence backends (URL query string,            *)
(* sessionStorage, localStorage) with priority-ordered reads at bind,      *)
(* change detection on every transition and a debounced multi-backend      *)
(* flush.  The URL writer's base64 transform and its sibling flag, the     *)
(* choice between pushState and replaceState, substrate calls that throw   *)
(* and a missing window are part of the model, as are the parameter cache  *)
(* of getCachedParams, the session history with back and forward           *)
(* navigation running handlePopState, the clock of the debounce timer and  *)
(* several stores sharing one query string.                                *)
(***************************************************************************)
EXTENDS Integers, Sequences, FiniteSets, TLC

\* ---------------------------------------------------------------- bounds
MaxBindings == 4      \* createPersistStore calls explored (binding slots)
MaxSets == 3          \* setState calls explored in one behaviour
MaxTraversals == 3    \* back / forward navigations explored in one behaviour

\* ---------------------------------------------------------------- values
Undefined == -1       \* the JavaScript value undefined
Null == 0             \* the JavaScript value null
Vals == {Undefined, Null, 1, 2}       \* values a field takes

\* String values, by what the writers depend on: the number of characters
\* and whether every character is in the Latin-1 range btoa accepts.
Latin1String(n) == 1000 + n           \* 'x'.repeat(n)
WideString == 2001                    \* one character above U+00FF
IsString(v) == v >= 1000
IsWide(v) == v >= 2000

Fields == {"a", "b"}                     \* fields of the store's state
Names == {"x", "y", "x_encoded"}         \* store names
StorageTypes == {"url", "session", "local"}
Slots == 1..MaxBindings

\* ------------------------------------------------- JSON and object helpers
\* Object.fromEntries(keys.map(k => [k, state[k]])): an object is the
\* sequence of its [key, value] entries in insertion order.
Project(keys, st) == [i \in 1..Len(keys) |-> <<keys[i], st[keys[i]]>>]

IsDefinedEntry(e) == e[2] # Undefined

\* .filter(([, v]) => v !== undefined)
FilterUndefined(obj) == SelectSeq(obj, IsDefinedEntry)

\* JSON.stringify of an object: entries whose value is undefined are
\* omitted, null is kept; the text is the sequence of the remaining entries.
JSONstringify(obj) == SelectSeq(obj, IsDefinedEntry)

\* dataStr.length: the number of characters of the JSON text of an object
\* whose keys have one character: braces, "k": per entry, the values, and
\* the commas between entries.
ValueLength(v) ==
  IF v = Null THEN 4 ELSE IF IsString(v) THEN (v % 1000) + 2 ELSE 1

RECURSIVE Length(_)
Length(text) ==
  IF Len(text) = 0 THEN 2
  ELSE IF Len(text) = 1 THEN 2 + 4 + ValueLength(text[1][2])
  ELSE Length(SubSeq(text, 1, Len(text) - 1)) + 1 + 4 + ValueLength(text[Len(text)][2])

\* JSON.parse of a text followed by property lookup: parsed[k] is undefined
\* for a key the text does not carry (a repeated key keeps its last value).
JSONparse(text) ==
  [k \in Fields |->
     IF \E i \in 1..Len(text) : text[i][1] = k
     THEN text[CHOOSE i \in 1..Len(text) :
                 /\ text[i][1] = k
                 /\ \A j \in (i+1)..Len(text) : text[j][1] # k][2]
     ELSE Undefined]

\* A substrate entry: absent (getItem / params.get returns null) or a text.
\* The text is a JSON text, the base64 transform of one (btoa), or a text
\* that neither JSON.parse nor atob accepts (here a JSON text cut short).
NoItem == [kind |-> "none", text |-> <<>>]
JsonItem(text) == [kind |-> "json", text |-> text]
Btoa(text) == [kind |-> "b64", text |-> text]
MalformedItem(text) == [kind |-> "malformed", text |-> text]

\* The name of the parameter `${name}_encoded`, and the names of the query
\* parameters the stores read and write.
FlagParam(name) == name \o "_encoded"
Params == Names \cup {FlagParam(n) : n \in Names}

\* The text '1', which persistToUrl stores under `${name}_encoded`.
OneItem == [kind |-> "one", text |-> <<>>]

\* params.get(`${name}_encoded`) for every name: absent, '1', or another
\* text (the payload of a store that has this parameter's name).
NoFlag == "absent"
Flags(query) ==
  [n \in Names |->
     IF query[FlagParam(n)].kind = "none" THEN NoFlag
     ELSE IF query[FlagParam(n)].kind = "one" THEN "1" ELSE "other"]

\* new URLSearchParams('')
EmptyQuery == [p \in Params |-> NoItem]

Includes(keys, k) == \E i \in 1..Len(keys) : keys[i] = k

\* The try block of readFromLocalStorage / readFromSessionStorage on the raw
\* entry stored under the name: {} when the entry is missing or JSON.parse
\* throws, else the parsed payload projected on the requested keys without
\* undefined values.  The result is given by its lookup function (result[k],
\* undefined if absent).
ReadFrom(raw, keys) ==
  IF raw.kind # "json"
  THEN [k \in Fields |-> Undefined]
  ELSE [k \in Fields |->
          IF Includes(keys, k) THEN JSONparse(raw.text)[k] ELSE Undefined]

\* atob(raw): throws unless raw is a base64 text (a JSON text starts with a
\* brace, which is not in the base64 alphabet).
AtobThrows(raw) == raw.kind # "b64"
Atob(raw) == JsonItem(raw.text)

\* Variant: readFromUrl never looks at the `${name}_encoded` parameter.
ReadFromUrlIgnoresFlag(raw, flag, keys) == ReadFrom(raw, keys)

\* The try block of readFromUrl on the raw parameter and the value of the
\* parameter `${name}_encoded`.
ReadFromUrl(raw, flag, keys) ==
  IF raw.kind = "none" THEN [k \in Fields |-> Undefined]
  ELSE IF flag = "1"
       THEN IF AtobThrows(raw) THEN [k \in Fields |-> Undefined]
            ELSE ReadFrom(Atob(raw), keys)
       ELSE ReadFrom(raw, keys)


\* ------------------------------------------------------------------ inputs
\* Key declarations a caller passes as `keys` (arrays, possibly empty).
KeySets ==
  { [urlKeys |-> <<"a">>,      sessionKeys |-> <<>>,         localKeys |-> <<>>],
    [urlKeys |-> <<"a">>,      sessionKeys |-> <<"a">>,      localKeys |-> <<"a">>],
    [urlKeys |-> <<"a">>,      sessionKeys |-> <<"a", "b">>, localKeys |-> <<"b", "a">>],
    [urlKeys |-> <<>>,         sessionKeys |-> <<"a">>,      localKeys |-> <<"a", "b">>],
    [urlKeys |-> <<>>,         sessionKeys |-> <<>>,         localKeys |-> <<>>] }

\* options.priority: absent (the default order), a custom permutation, or a
\* list that omits a backend.
DefaultPriority == <<"url", "session", "local">>
Priorities == {DefaultPriority, <<"local", "session", "url">>, <<"session", "local">>}

\* options.history and options.base64.  `given` is FALSE for an option the
\* caller leaves out; a threshold left out is undefined.
NoHistory == [given |-> FALSE, keys |-> <<>>]
History(keys) == [given |-> TRUE, keys |-> keys]
NoBase64 == [enabled |-> FALSE, threshold |-> Undefined]
Base64(enabled, threshold) == [enabled |-> enabled, threshold |-> threshold]
DefaultOptions == [history |-> NoHistory, base64 |-> NoBase64,
                   debounceDelay |-> Undefined]

\* State the initializer creates.
Initializers == { [k \in Fields |-> Undefined], [a |-> 2, b |-> 1] }

\* The name a previous page load persisted under, and the payloads it may
\* have left there.
PersistedName == "x"
PersistedUrl == {NoItem, JsonItem(<< <<"a", 1>> >>)}
PersistedSession == {NoItem, JsonItem(<< <<"a", 2>>, <<"b", 2>> >>)}
PersistedLocal == {NoItem, JsonItem(<< <<"b", 1>>, <<"a", Null>> >>)}

\* ------------------------------------------------------------------- state
VARIABLES
  registeredUrlStoreNames,      \* module-level Set
  registeredLocalStoreNames,    \* module-level Set
  registeredSessionStoreNames,  \* module-level Set
  hasWindow,       \* typeof window !== 'undefined'
  search,          \* window.location.search: parameter name -> entry
  entries,         \* the session history: the query of every entry
  index,           \* position of the current entry in the session history
  cachedUrlSearch, \* module-level cachedUrlSearch: the text last parsed
  cachedParams,    \* module-level cachedParams: null or the parsed text
  historyCalls,    \* calls of window.history.pushState / replaceState so far
  popstateListeners, \* handlePopState is registered on window
  uncaught,        \* exceptions that left a timer callback so far
  sessionStorage,  \* name -> entry
  localStorage,    \* name -> entry
  binding,         \* per call of createPersistStore: its arguments and status
  state,           \* the zustand store's state
  prev,            \* closure variable prev: storage type -> tracked object
  prevJsonStr,     \* closure variable prevJsonStr: storage type -> text
  timeout,         \* debounce closure: pending timer and its captured args
  subscribed,      \* the store.subscribe listener is registered
  writeCalls,      \* substrate write calls so far, per storage type
  setCalls,        \* setState calls so far
  traversals,      \* back / forward navigations so far
  held,            \* per store with history keys and per history entry: the
                   \* URL-key values the store held while the entry was current
  lastResync,      \* per store, while nothing has run on it since the last
                   \* popstate event: the fields its handler changed, and
                   \* whether the handler set the timer with none pending
  lastOp           \* the operation that ran last, and on which slot

vars == <<registeredUrlStoreNames, registeredLocalStoreNames,
          registeredSessionStoreNames, hasWindow, search, entries, index,
          cachedUrlSearch, cachedParams, historyCalls,
          popstateListeners, uncaught, sessionStorage, localStorage,
          binding, state, prev, prevJsonStr, timeout, subscribed,
          writeCalls, setCalls, traversals, held, lastResync, lastOp>>

EmptyState == [k \in Fields |-> Undefined]

Unbound == [status |-> "unbound", name |-> PersistedName, error |-> "",
            urlKeys |-> <<>>, sessionKeys |-> <<>>, localKeys |-> <<>>,
            priority |-> DefaultPriority,
            history |-> NoHistory, base64 |-> NoBase64,
            debounceDelay |-> Undefined,
            initializer |-> EmptyState, initialState |-> EmptyState]

\* The debounce closure: whether a timer is pending, the arguments its
\* callback captured, the delay it was set with and the time since then (ms).
NoTimeout == [pending |-> FALSE, currentState |-> EmptyState, historyChanged |-> FALSE,
              wait |-> 0, elapsed |-> 0]

\* let cachedParams: URLSearchParams | null = null
NoParams == [parsed |-> FALSE, query |-> EmptyQuery]
Parsed(query) == [parsed |-> TRUE, query |-> query]

NoObjects == [t \in StorageTypes |-> <<>>]

\* No popstate handler has touched the store since the last operation on it.
NoResync == [changed |-> {}, idle |-> FALSE]

\* The module and the page before the first call of createPersistStore,
\* whatever the substrates hold.
InitModule ==
  /\ registeredUrlStoreNames = {}
  /\ registeredLocalStoreNames = {}
  /\ registeredSessionStoreNames = {}
  /\ cachedUrlSearch = EmptyQuery
  /\ cachedParams = NoParams
  /\ index = 1
  /\ historyCalls = [pushState |-> 0, replaceState |-> 0]
  /\ popstateListeners = [s \in Slots |-> FALSE]
  /\ uncaught = 0
  /\ binding = [s \in Slots |-> Unbound]
  /\ state = [s \in Slots |-> EmptyState]
  /\ prev = [s \in Slots |-> NoObjects]
  /\ prevJsonStr = [s \in Slots |-> NoObjects]
  /\ timeout = [s \in Slots |-> NoTimeout]
  /\ subscribed = [s \in Slots |-> FALSE]
  /\ writeCalls = [t \in StorageTypes |-> 0]
  /\ setCalls = 0
  /\ traversals = 0
  /\ held = [s \in Slots |-> <<>>]
  /\ lastResync = [s \in Slots |-> NoResync]
  /\ lastOp = [op |-> "none", slot |-> 1]

\* A browser page whose substrates hold what an earlier load left there.
Init ==
  /\ InitModule
  /\ hasWindow = TRUE
  /\ \E u \in PersistedUrl :
       search = [p \in Params |-> IF p = PersistedName THEN u ELSE NoItem]
  /\ entries = <<search>>
  /\ \E u \in PersistedSession :
       sessionStorage = [n \in Names |-> IF n = PersistedName THEN u ELSE NoItem]
  /\ \E u \in PersistedLocal :
       localStorage = [n \in Names |-> IF n = PersistedName THEN u ELSE NoItem]

\* Keys a binding declares for a storage type, and the substrate behind it.
KeysOf(b, t) ==
  IF t = "url" THEN b.urlKeys ELSE IF t = "session" THEN b.sessionKeys ELSE b.localKeys

Substrate(t) ==
  IF t = "url" THEN search ELSE IF t = "session" THEN sessionStorage ELSE localStorage

\* readFromUrl / readFromSessionStorage / readFromLocalStorage: {} without a
\* window, else the result of the try block on what the substrate holds.
\* getCachedParams(): the parameters parsed from window.location.search,
\* parsed anew when the text is not the one parsed last or nothing is cached.
GetCachedParams ==
  IF search # cachedUrlSearch \/ ~cachedParams.parsed THEN search ELSE cachedParams.query

\* The value of `${name}_encoded` in the address, per name.
encoded == Flags(search)

Read(t, name, keys) ==
  IF ~hasWindow THEN [k \in Fields |-> Undefined]
  ELSE IF t = "url"
  THEN ReadFromUrl(GetCachedParams[name], Flags(GetCachedParams)[name], keys)
  ELSE ReadFrom(Substrate(t)[name], keys)


\* ------------------------------------------------------- createPersistStore
\* Variant: one registry shared by the three categories.
ConflictErrorSharedRegistry(name, keys) ==
  IF name \in (registeredUrlStoreNames \cup registeredLocalStoreNames
                 \cup registeredSessionStoreNames)
  THEN "URL store name conflict"
  ELSE ""

\* The registry check: the message of the conflict error the call throws,
\* "" when it throws none. The categories are tested in the order url,
\* local, session and only for a non-empty key list.
ConflictError(name, keys) ==
  IF Len(keys.urlKeys) > 0 /\ name \in registeredUrlStoreNames
  THEN "URL store name conflict"
  ELSE IF Len(keys.localKeys) > 0 /\ name \in registeredLocalStoreNames
  THEN "localStorage store name conflict"
  ELSE IF Len(keys.sessionKeys) > 0 /\ name \in registeredSessionStoreNames
  THEN "sessionStorage store name conflict"
  ELSE ""

\* Variant: each category's add follows its own check, ahead of the checks
\* of the later categories (order url, local, session).
AddsBetweenChecks(t, name, keys) ==
  /\ Len(KeysOf(keys, t)) > 0
  /\ ~(Len(keys.urlKeys) > 0 /\ name \in registeredUrlStoreNames)
  /\ t \in {"local", "session"}
       => ~(Len(keys.localKeys) > 0 /\ name \in registeredLocalStoreNames)
  /\ t = "session"
       => ~(Len(keys.sessionKeys) > 0 /\ name \in registeredSessionStoreNames)

\* The call reaches `if (keys?.length) registered...StoreNames.add(name)` of
\* category t and adds the name: the three adds follow the three checks.
Adds(t, name, keys) == ConflictError(name, keys) = "" /\ Len(KeysOf(keys, t)) > 0

\* const hasAnyStorage = urlKeys?.length || localKeys?.length || sessionKeys?.length
HasAnyStorage(keys) ==
  Len(keys.urlKeys) > 0 \/ Len(keys.localKeys) > 0 \/ Len(keys.sessionKeys) > 0

\* The loop over `priority` for one key, from position i on: the value of the
\* first storage type in the order that declares the key and whose read
\* yields a value other than undefined; undefined when none does.
RECURSIVE ResolveFrom(_, _, _, _, _)

\* Variant: the first storage type that declares the key decides, whether or
\* not its read yields a value.
RECURSIVE ResolveFromFirstDeclared(_, _, _, _, _)
ResolveFromFirstDeclared(name, keys, priority, key, i) ==
  IF i > Len(priority) THEN Undefined
  ELSE LET t == priority[i]
       IN IF Includes(KeysOf(keys, t), key)
          THEN Read(t, name, <<key>>)[key]
          ELSE ResolveFromFirstDeclared(name, keys, priority, key, i + 1)

\* Variant: a storage type is read for a key whether or not it declares it.
RECURSIVE ResolveFromAnyBackend(_, _, _, _, _)
ResolveFromAnyBackend(name, keys, priority, key, i) ==
  IF i > Len(priority) THEN Undefined
  ELSE LET data == Read(priority[i], name, <<key>>)
       IN IF data[key] # Undefined
          THEN data[key]
          ELSE ResolveFromAnyBackend(name, keys, priority, key, i + 1)

ResolveFrom(name, keys, priority, key, i) ==
  IF i > Len(priority) THEN Undefined
  ELSE LET t == priority[i]
           declared == Includes(KeysOf(keys, t), key)
           data == Read(t, name, <<key>>)
       IN IF declared /\ data[key] # Undefined
          THEN data[key]
          ELSE ResolveFrom(name, keys, priority, key, i + 1)

\* The loop over `priority` for one key, from position i on, calls
\* readFromUrl, which calls getCachedParams when a window exists.
RECURSIVE ReachesUrl(_, _, _, _, _)
ReachesUrl(name, keys, priority, key, i) ==
  IF i > Len(priority) THEN FALSE
  ELSE LET t == priority[i]
           declared == Includes(KeysOf(keys, t), key)
           data == Read(t, name, <<key>>)
       IN IF declared /\ t = "url" THEN TRUE
          ELSE IF declared /\ data[key] # Undefined THEN FALSE
          ELSE ReachesUrl(name, keys, priority, key, i + 1)

\* Variant: options.priority is ignored, the default order is used.
ResolveKeyDefaultOrder(name, keys, priority, key) ==
  ResolveFrom(name, keys, DefaultPriority, key, 1)

ResolveKey(name, keys, priority, key) == ResolveFrom(name, keys, priority, key, 1)

\* const allKeys = new Set(...) of the three key lists
AllKeys(keys) ==
  {k \in Fields : \E t \in StorageTypes : Includes(KeysOf(keys, t), k)}

\* Some key's loop reads the URL during the call.
ReadsUrl(name, keys, priority) ==
  /\ hasWindow
  /\ HasAnyStorage(keys)
  /\ \E k \in AllKeys(keys) : ReachesUrl(name, keys, priority, k, 1)

\* initialData, by lookup: undefined for a key it does not carry.
InitialData(name, keys, priority) ==
  [k \in Fields |->
     IF k \in AllKeys(keys) THEN ResolveKey(name, keys, priority, k) ELSE Undefined]

\* store.setState(partial): zustand merges the partial's own entries.
Merge(st, partial) ==
  [k \in Fields |-> IF partial[k] # Undefined THEN partial[k] ELSE st[k]]

\* prev.url / prev.local / prev.session as set up at bind for a state.
TrackedObjects(keys, st) ==
  [t \in StorageTypes |->
     IF Len(KeysOf(keys, t)) > 0 THEN Project(KeysOf(keys, t), st) ELSE <<>>]

TrackedTexts(keys, st) ==
  [t \in StorageTypes |-> JSONstringify(TrackedObjects(keys, st)[t])]

FirstFree(s) ==
  /\ binding[s].status = "unbound"
  /\ \A r \in Slots : r < s => binding[r].status # "unbound"

\* const historyKeys = options?.history || []
HistoryKeys(b) == IF b.history.given THEN b.history.keys ELSE <<>>

\* const useHistory = historyKeys.length > 0 && urlKeys?.length ? true : false
UseHistory(b) == Len(HistoryKeys(b)) > 0 /\ Len(b.urlKeys) > 0

\* if (useHistory && typeof window !== 'undefined' && urlKeys?.length)
RegistersPopState(b) == UseHistory(b) /\ hasWindow /\ Len(b.urlKeys) > 0

\* Variant: store.subscribe is called before store.setState(initialData),
\* so initial data read from a backend sets the timer.
DebounceAfterSubscribe(b, st) ==
  IF st # b.initializer
  THEN [pending |-> TRUE, currentState |-> st, historyChanged |-> FALSE,
        wait |-> 100, elapsed |-> 0]
  ELSE NoTimeout

\* debounce(func, wait) as called for debouncedPersist: a closure whose
\* timeout is null.  store.setState(initialData) ran before store.subscribe,
\* so the state st read at bind reaches no listener.
Debounce(b, st) == NoTimeout

CreatePersistStore(s, name, keys, initializer, priority, options) ==
  /\ FirstFree(s)
  /\ LET err == ConflictError(name, keys)
         st == Merge(initializer, InitialData(name, keys, priority))
         args == [name |-> name, urlKeys |-> keys.urlKeys,
                  sessionKeys |-> keys.sessionKeys, localKeys |-> keys.localKeys,
                  priority |-> priority, history |-> options.history,
                  base64 |-> options.base64,
                  debounceDelay |-> options.debounceDelay,
                  initializer |-> initializer,
                  initialState |-> IF HasAnyStorage(keys) THEN st ELSE initializer]
     IN IF err # ""
        THEN /\ binding' = [binding EXCEPT ![s] =
                              args @@ [status |-> "threw", error |-> err]]
             /\ UNCHANGED <<state, prev, prevJsonStr,
                            subscribed, popstateListeners, cachedUrlSearch,
                            cachedParams, held, timeout>>
        ELSE /\ binding' = [binding EXCEPT ![s] =
                              args @@ [status |-> "bound", error |-> ""]]
             /\ timeout' = [timeout EXCEPT ![s] =
                              IF HasAnyStorage(keys) THEN Debounce(args, st) ELSE @]
             /\ IF HasAnyStorage(keys)
                THEN /\ state' = [state EXCEPT ![s] = st]
                     /\ prev' = [prev EXCEPT ![s] = TrackedObjects(keys, st)]
                     /\ prevJsonStr' = [prevJsonStr EXCEPT ![s] = TrackedTexts(keys, st)]
                     /\ subscribed' = [subscribed EXCEPT ![s] = TRUE]
                     /\ popstateListeners' =
                          [popstateListeners EXCEPT ![s] = RegistersPopState(args)]
                ELSE /\ state' = [state EXCEPT ![s] = initializer]
                     /\ UNCHANGED <<prev, prevJsonStr, subscribed, popstateListeners>>
             /\ held' = [held EXCEPT ![s] =
                           IF UseHistory(args)
                           THEN [i \in 1..Len(entries) |->
                                   IF i = index THEN {Project(keys.urlKeys, state'[s])}
                                   ELSE {}]
                           ELSE <<>>]
             /\ cachedUrlSearch' =
                  IF ReadsUrl(name, keys, priority) THEN search ELSE cachedUrlSearch
             /\ cachedParams' =
                  IF ReadsUrl(name, keys, priority)
                  THEN Parsed(GetCachedParams) ELSE cachedParams
  /\ registeredUrlStoreNames' =
       IF Adds("url", name, keys)
       THEN registeredUrlStoreNames \cup {name} ELSE registeredUrlStoreNames
  /\ registeredLocalStoreNames' =
       IF Adds("local", name, keys)
       THEN registeredLocalStoreNames \cup {name} ELSE registeredLocalStoreNames
  /\ registeredSessionStoreNames' =
       IF Adds("session", name, keys)
       THEN registeredSessionStoreNames \cup {name} ELSE registeredSessionStoreNames
  /\ lastOp' = [op |-> "bind", slot |-> s]
  /\ lastResync' = [lastResync EXCEPT ![s] = NoResync]
  /\ UNCHANGED <<hasWindow, search, entries, index, historyCalls, uncaught,
                 sessionStorage, localStorage, writeCalls, setCalls,
                 traversals>>


\* ------------------------------------------------------------ checkChanges
\* changes[t] for a declared storage type: the tracked object and the
\* projection of the current state serialize to different texts.
Changed(s, t, curr) ==
  /\ Len(KeysOf(binding[s], t)) > 0
  /\ JSONstringify(prev[s][t]) # JSONstringify(Project(KeysOf(binding[s], t), curr))

\* Object.values(changes).some(Boolean)
AnyChange(s, curr) == \E t \in StorageTypes : Changed(s, t, curr)

\* obj?.[k] of a tracked object: undefined for a key it does not carry.
Get(obj, k) ==
  IF \E i \in 1..Len(obj) : obj[i][1] = k
  THEN obj[CHOOSE i \in 1..Len(obj) : obj[i][1] = k][2]
  ELSE Undefined

\* hasHistoryChange: some history key's value in curr is not the one
\* prev.url carries for it.
HasHistoryChange(s, curr) ==
  /\ Len(binding[s].urlKeys) > 0
  /\ Len(HistoryKeys(binding[s])) > 0
  /\ \E i \in 1..Len(HistoryKeys(binding[s])) :
       Get(prev[s]["url"], HistoryKeys(binding[s])[i]) # curr[HistoryKeys(binding[s])[i]]

\* ---------------------------------------------------------------- debounce
\* Variant: options?.debounceDelay || 100, which turns a delay of 0 into 100.
DebounceDelayOr(b) ==
  IF b.debounceDelay = Undefined \/ b.debounceDelay = 0 THEN 100 ELSE b.debounceDelay

\* const debounceDelay = options?.debounceDelay ?? 100
DebounceDelay(b) == IF b.debounceDelay = Undefined THEN 100 ELSE b.debounceDelay

\* The function debounce returns: clearTimeout of a pending timer, then
\* setTimeout with the arguments of this call.
Debounced(s, currentState, historyChanged) ==
  [pending |-> TRUE, currentState |-> currentState, historyChanged |-> historyChanged,
   wait |-> DebounceDelay(binding[s]), elapsed |-> 0]

\* Variant: the listener keeps running after unsubscribe.
ListenerNeverUnsubscribed(s, curr) ==
  IF AnyChange(s, curr)
  THEN Debounced(s, curr, HasHistoryChange(s, curr)) ELSE timeout[s]

\* Variant: the listener calls debouncedPersist after every transition.
ListenerAlwaysPersists(s, curr) ==
  IF subscribed[s]
  THEN Debounced(s, curr, HasHistoryChange(s, curr)) ELSE timeout[s]

\* The store.subscribe listener, run by zustand after a transition while the
\* listener is registered: the value of the debounce closure afterwards.
Listener(s, curr) ==
  IF subscribed[s] /\ AnyChange(s, curr)
  THEN Debounced(s, curr, HasHistoryChange(s, curr)) ELSE timeout[s]

\* The record of held values of slot s once its store holds st while entry
\* i is current.
HeldAfter(s, i, st) ==
  IF Len(held[s]) = 0 THEN held[s]
  ELSE [held[s] EXCEPT ![i] = @ \cup {Project(binding[s].urlKeys, st)}]

\* store.setState({[k]: v}) by the application.
SetState(s, k, v) ==
  /\ binding[s].status \in {"bound", "destroyed"}
  /\ setCalls < MaxSets
  /\ setCalls' = setCalls + 1
  /\ lastOp' = [op |-> "set", slot |-> s]
  /\ lastResync' = [lastResync EXCEPT ![s] = NoResync]
  /\ LET curr == [state[s] EXCEPT ![k] = v]
     IN /\ state' = [state EXCEPT ![s] = curr]
        /\ timeout' = [timeout EXCEPT ![s] = Listener(s, curr)]
        /\ held' = [held EXCEPT ![s] = HeldAfter(s, index, curr)]
  /\ UNCHANGED <<registeredUrlStoreNames, registeredLocalStoreNames,
                 registeredSessionStoreNames, hasWindow, search, entries, index,
                 cachedUrlSearch, cachedParams,
                 historyCalls, popstateListeners, uncaught, sessionStorage,
                 localStorage, binding, prev, prevJsonStr, subscribed, writeCalls,
                 traversals>>

\* store.setState(partial) by the application with a partial that carries
\* several fields (those whose value here is not undefined).
SetPartial(s, partial) ==
  /\ binding[s].status \in {"bound", "destroyed"}
  /\ setCalls < MaxSets
  /\ setCalls' = setCalls + 1
  /\ lastOp' = [op |-> "set", slot |-> s]
  /\ lastResync' = [lastResync EXCEPT ![s] = NoResync]
  /\ LET curr == Merge(state[s], partial)
     IN /\ state' = [state EXCEPT ![s] = curr]
        /\ timeout' = [timeout EXCEPT ![s] = Listener(s, curr)]
        /\ held' = [held EXCEPT ![s] = HeldAfter(s, index, curr)]
  /\ UNCHANGED <<registeredUrlStoreNames, registeredLocalStoreNames,
                 registeredSessionStoreNames, hasWindow, search, entries, index,
                 cachedUrlSearch, cachedParams,
                 historyCalls, popstateListeners, uncaught, sessionStorage,
                 localStorage, binding, prev, prevJsonStr, subscribed, writeCalls,
                 traversals>>

\* ------------------------------------------------- persistTo* (the writers)
\* Variant: the filter is written v != null, which drops null as well.
DataStrDropsNull(keys, obj) ==
  LET IsNeitherUndefinedNorNull(e) == e[2] # Undefined /\ e[2] # Null
  IN JSONstringify(SelectSeq(obj, IsNeitherUndefinedNorNull))

\* The text persistToUrl / persistToLocalStorage / persistToSessionStorage
\* build from the object handed to them.
DataStr(keys, obj) == JSONstringify(FilterUndefined(obj))

\* Variant: the comparison with the previous text is missing.
NeverSkipsWrite(prevStr, dataStr) == FALSE

\* if (prevJsonStr === dataStr) return
SkipsWrite(prevStr, dataStr) == prevStr = dataStr

\* Variant: the whole captured state is handed to every writer.
FlushObjectWholeState(s, t) == Project(<<"a", "b">>, timeout[s].currentState)

\* The objects debouncedPersist projects from its captured state.
FlushObject(s, t) == Project(KeysOf(binding[s], t), timeout[s].currentState)

\* The text the writer of t builds during the flush of slot s.
FlushStr(s, t) == DataStr(KeysOf(binding[s], t), FlushObject(s, t))

\* Variant: only the storage type that is first in the priority order is
\* written.
WritesFirstPriorityOnly(s, t) ==
  /\ Len(KeysOf(binding[s], t)) > 0
  /\ t = binding[s].priority[1]
  /\ prevJsonStr[s][t] # DataStr(KeysOf(binding[s], t), FlushObject(s, t))

\* Variant: the writers do not test for a window.
WritesWithoutWindow(s, t) ==
  /\ Len(KeysOf(binding[s], t)) > 0
  /\ ~SkipsWrite(prevJsonStr[s][t], FlushStr(s, t))

\* Variant: a storage type left out of options.priority is not written.
WritesListedOnly(s, t) ==
  /\ Len(KeysOf(binding[s], t)) > 0
  /\ hasWindow
  /\ Includes(binding[s].priority, t)
  /\ ~SkipsWrite(prevJsonStr[s][t], FlushStr(s, t))

\* The writer of t, called by debouncedPersist, gets past its two early
\* returns (no window; text equal to the previous text).
Writes(s, t) ==
  /\ Len(KeysOf(binding[s], t)) > 0
  /\ hasWindow
  /\ ~SkipsWrite(prevJsonStr[s][t], FlushStr(s, t))

\* options.base64.threshold || 100
Threshold(b) ==
  IF b.base64.threshold = Undefined \/ b.base64.threshold = 0
  THEN 100 ELSE b.base64.threshold

\* Variant: a text as long as the threshold is transformed too.
ShouldEncodeFromThreshold(b, dataStr) ==
  b.base64.enabled /\ Length(dataStr) >= Threshold(b)

\* const shouldEncode = options?.base64?.enabled && dataStr.length > (threshold || 100)
ShouldEncode(b, dataStr) == b.base64.enabled /\ Length(dataStr) > Threshold(b)

\* btoa(dataStr) throws InvalidCharacterError for a character above U+00FF
\* (JSON.stringify leaves such characters as they are).
BtoaThrows(dataStr) == \E i \in 1..Len(dataStr) : IsWide(dataStr[i][2])

\* Variant: the flag parameter is set when the text is transformed and
\* otherwise left as it is.
EncodedFlagKept(b, dataStr) ==
  IF ShouldEncode(b, dataStr) THEN OneItem ELSE GetCachedParams[FlagParam(b.name)]

\* params.set(`${name}_encoded`, '1') or params.delete(`${name}_encoded`)
EncodedFlag(b, dataStr) == IF ShouldEncode(b, dataStr) THEN OneItem ELSE NoItem

\* finalDataStr, as the value of the parameter
FinalDataStr(b, dataStr) ==
  IF ShouldEncode(b, dataStr) THEN Btoa(dataStr) ELSE JsonItem(dataStr)

\* Variant: every URL write records a history entry.
PushesStateOnEveryWrite(s) == Len(binding[s].urlKeys) > 0

\* Variant: the flag is computed again from the store when the timer fires.
PushesStateRecomputed(s) ==
  UseHistory(binding[s]) /\ HasHistoryChange(s, state[s])

\* persistToUrl's useHistory for the options debouncedPersist passes:
\* history: historyChanged && useHistory ? historyKeys : []
PushesState(s) ==
  LET history == IF timeout[s].historyChanged /\ UseHistory(binding[s])
                 THEN HistoryKeys(binding[s]) ELSE <<>>
  IN Len(history) > 0

\* persistToUrl throws: btoa rejects the text, or the History API call
\* throws (failing is the set of substrates whose call throws this time).
\* Nothing in persistToUrl or debouncedPersist catches it.
UrlThrows(s, failing) ==
  /\ Writes(s, "url")
  /\ \/ ShouldEncode(binding[s], FlushStr(s, "url")) /\ BtoaThrows(FlushStr(s, "url"))
     \/ "url" \in failing

\* The writer of t calls its substrate (pushState / replaceState, setItem).
\* The writers run in the order url, local, session; an exception thrown by
\* persistToUrl ends debouncedPersist before the other two.
Calls(s, t, failing) ==
  /\ Writes(s, t)
  /\ IF t = "url"
     THEN ~(ShouldEncode(binding[s], FlushStr(s, "url")) /\ BtoaThrows(FlushStr(s, "url")))
     ELSE ~UrlThrows(s, failing)

\* The call is made and does not throw.
Succeeds(s, t, failing) == Calls(s, t, failing) /\ t \notin failing

\* The parameters persistToUrl hands to the History API: the cached ones
\* with the flag parameter set or deleted and the payload set under the name.
NewParams(s) ==
  [GetCachedParams EXCEPT
     ![FlagParam(binding[s].name)] = EncodedFlag(binding[s], FlushStr(s, "url")),
     ![binding[s].name] = FinalDataStr(binding[s], FlushStr(s, "url"))]

\* Substrate of t after the flush of slot s.
Flushed(s, t, failing) ==
  IF Succeeds(s, t, failing)
  THEN IF t = "url" THEN NewParams(s)
       ELSE [Substrate(t) EXCEPT ![binding[s].name] = JsonItem(FlushStr(s, t))]
  ELSE Substrate(t)

\* persistToUrl gets past its window test and calls getCachedParams.
RefreshesCache(s) == Len(binding[s].urlKeys) > 0 /\ hasWindow

\* debouncedPersist reaches the assignments to prev[t] and prevJsonStr[t]:
\* they follow the writer's call whatever the writer did, unless
\* persistToUrl threw.
TracksFlush(s, t, failing) ==
  /\ Len(KeysOf(binding[s], t)) > 0
  /\ ~UrlThrows(s, failing)

\* The timer set by debounce fires: debouncedPersist runs with the captured
\* arguments.
TimerFires(s, failing) ==
  /\ timeout[s].pending
  /\ search' = Flushed(s, "url", failing)
  /\ cachedUrlSearch' =
       IF Calls(s, "url", failing) THEN NewParams(s)
       ELSE IF RefreshesCache(s) THEN search ELSE cachedUrlSearch
  /\ cachedParams' =
       IF Calls(s, "url", failing) THEN Parsed(NewParams(s))
       ELSE IF RefreshesCache(s) THEN Parsed(GetCachedParams) ELSE cachedParams
  /\ entries' =
       IF ~Succeeds(s, "url", failing) THEN entries
       ELSE IF PushesState(s) THEN Append(SubSeq(entries, 1, index), NewParams(s))
       ELSE [entries EXCEPT ![index] = NewParams(s)]
  /\ index' = IF Succeeds(s, "url", failing) /\ PushesState(s) THEN index + 1 ELSE index
  /\ held' = IF Succeeds(s, "url", failing) /\ PushesState(s)
             THEN [r \in Slots |->
                     IF Len(held[r]) = 0 THEN held[r]
                     ELSE Append(SubSeq(held[r], 1, index),
                                 {Project(binding[r].urlKeys, state[r])})]
             ELSE held
  /\ historyCalls' =
       IF ~Calls(s, "url", failing) THEN historyCalls
       ELSE IF PushesState(s)
       THEN [historyCalls EXCEPT !.pushState = @ + 1]
       ELSE [historyCalls EXCEPT !.replaceState = @ + 1]
  /\ localStorage' = Flushed(s, "local", failing)
  /\ sessionStorage' = Flushed(s, "session", failing)
  /\ writeCalls' = [t \in StorageTypes |->
                      IF Calls(s, t, failing) THEN writeCalls[t] + 1 ELSE writeCalls[t]]
  /\ prev' = [prev EXCEPT ![s] =
                [t \in StorageTypes |->
                   IF TracksFlush(s, t, failing) THEN FlushObject(s, t) ELSE @[t]]]
  /\ prevJsonStr' = [prevJsonStr EXCEPT ![s] =
                [t \in StorageTypes |->
                   IF TracksFlush(s, t, failing)
                   THEN JSONstringify(FlushObject(s, t)) ELSE @[t]]]
  /\ uncaught' = IF UrlThrows(s, failing) THEN uncaught + 1 ELSE uncaught
  /\ timeout' = [timeout EXCEPT ![s] = NoTimeout]
  /\ lastOp' = [op |-> "fire", slot |-> s]
  /\ lastResync' = [lastResync EXCEPT ![s] = NoResync]
  /\ UNCHANGED <<registeredUrlStoreNames, registeredLocalStoreNames,
                 registeredSessionStoreNames, hasWindow, popstateListeners,
                 binding, state, subscribed, setCalls, traversals>>

\* ------------------------------------------------------------------- timers
\* The host runs the callback of a timer no earlier than `wait` ms after
\* setTimeout.
Due(s) == timeout[s].pending /\ timeout[s].elapsed >= timeout[s].wait

\* d ms pass without any timer coming due on the way.
Tick(d) ==
  /\ \E s \in Slots : timeout[s].pending
  /\ \A s \in Slots : timeout[s].pending => timeout[s].elapsed + d <= timeout[s].wait
  /\ timeout' = [s \in Slots |->
                   IF timeout[s].pending
                   THEN [timeout[s] EXCEPT !.elapsed = @ + d] ELSE timeout[s]]
  /\ lastOp' = [op |-> "tick", slot |-> 1]
  /\ UNCHANGED lastResync
  /\ UNCHANGED <<registeredUrlStoreNames, registeredLocalStoreNames,
                 registeredSessionStoreNames, hasWindow, search, entries, index,
                 cachedUrlSearch, cachedParams, historyCalls, popstateListeners,
                 uncaught, sessionStorage, localStorage, binding, state, prev,
                 prevJsonStr, subscribed, writeCalls, setCalls, traversals, held>>

\* ----------------------------------------------------------------- destroy
\* Variant: destroy() also takes the name out of the registries of the
\* categories the store declared keys for.
DestroyReleasesName(s) ==
  /\ binding[s].status = "bound"
  /\ HasAnyStorage(binding[s])
  /\ binding' = [binding EXCEPT ![s].status = "destroyed"]
  /\ subscribed' = [subscribed EXCEPT ![s] = FALSE]
  /\ popstateListeners' = [popstateListeners EXCEPT ![s] = FALSE]
  /\ registeredUrlStoreNames' =
       IF Len(binding[s].urlKeys) > 0
       THEN registeredUrlStoreNames \ {binding[s].name} ELSE registeredUrlStoreNames
  /\ registeredLocalStoreNames' =
       IF Len(binding[s].localKeys) > 0
       THEN registeredLocalStoreNames \ {binding[s].name} ELSE registeredLocalStoreNames
  /\ registeredSessionStoreNames' =
       IF Len(binding[s].sessionKeys) > 0
       THEN registeredSessionStoreNames \ {binding[s].name}
       ELSE registeredSessionStoreNames
  /\ lastOp' = [op |-> "destroy", slot |-> s]
  /\ lastResync' = [lastResync EXCEPT ![s] = NoResync]
  /\ UNCHANGED <<hasWindow, search, entries, index,
                 cachedUrlSearch, cachedParams,
                 historyCalls, uncaught, sessionStorage, localStorage,
                 state, prev, prevJsonStr, timeout, writeCalls, setCalls,
                 traversals, held>>

\* Variant: destroy() leaves the popstate handler registered.
DestroyKeepsPopState(s) ==
  /\ binding[s].status = "bound"
  /\ HasAnyStorage(binding[s])
  /\ binding' = [binding EXCEPT ![s].status = "destroyed"]
  /\ subscribed' = [subscribed EXCEPT ![s] = FALSE]
  /\ lastOp' = [op |-> "destroy", slot |-> s]
  /\ lastResync' = [lastResync EXCEPT ![s] = NoResync]
  /\ UNCHANGED <<registeredUrlStoreNames, registeredLocalStoreNames,
                 registeredSessionStoreNames, hasWindow, search, entries, index,
                 cachedUrlSearch, cachedParams, popstateListeners,
                 historyCalls, uncaught, sessionStorage, localStorage,
                 state, prev, prevJsonStr, timeout, writeCalls, setCalls,
                 traversals, held>>

\* store.destroy(): window.removeEventListener('popstate', handlePopState)
\* if the handler exists, then unsubscribe(); the debounce closure is not
\* touched.
Destroy(s) ==
  /\ binding[s].status = "bound"
  /\ HasAnyStorage(binding[s])
  /\ binding' = [binding EXCEPT ![s].status = "destroyed"]
  /\ subscribed' = [subscribed EXCEPT ![s] = FALSE]
  /\ popstateListeners' = [popstateListeners EXCEPT ![s] = FALSE]
  /\ lastOp' = [op |-> "destroy", slot |-> s]
  /\ lastResync' = [lastResync EXCEPT ![s] = NoResync]
  /\ UNCHANGED <<registeredUrlStoreNames, registeredLocalStoreNames,
                 registeredSessionStoreNames, hasWindow, search, entries, index,
                 cachedUrlSearch, cachedParams,
                 historyCalls, uncaught, sessionStorage, localStorage,
                 state, prev, prevJsonStr, timeout, writeCalls, setCalls,
                 traversals, held>>

\* ---------------------------------------------------------- handlePopState
\* Variant: the handler reads the parameters cached before the navigation.
PopStateParamsCached(query) == IF cachedParams.parsed THEN cachedParams.query ELSE query

\* The parameters readFromUrl gets inside handlePopState: the handler sets
\* cachedUrlSearch to '' and cachedParams to null first, so getCachedParams
\* parses the address the navigation arrived at.
PopStateParams(query) == query

\* const urlData = readFromUrl(name, urlKeys)
PopStateData(s, query) ==
  ReadFromUrl(PopStateParams(query)[binding[s].name],
              Flags(PopStateParams(query))[binding[s].name], binding[s].urlKeys)

\* The handler of slot s is registered and gets past
\* if (Object.keys(urlData).length).
Resyncs(s, query) ==
  /\ popstateListeners[s]
  /\ \E k \in Fields : PopStateData(s, query)[k] # Undefined

\* store.getState() after store.setState(urlData)
Resynced(s, query) == Merge(state[s], PopStateData(s, query))

\* Variant: the handler leaves prev.url as it was.
PopStateTrackedStale(s, query) == prev[s]["url"]

\* prev.url = Object.fromEntries(urlKeys.map(k => [k, store.getState()[k]]))
PopStateTracked(s, query) == Project(binding[s].urlKeys, Resynced(s, query))

\* A popstate event on a window whose address holds query: every registered
\* handler runs.  store.setState(urlData) runs the store.subscribe listener
\* before the handler assigns prev.url and prevJsonStr.url.
PopState(query) ==
  /\ state' = [s \in Slots |->
                 IF Resyncs(s, query) THEN Resynced(s, query) ELSE state[s]]
  /\ timeout' = [s \in Slots |->
                   IF Resyncs(s, query) THEN Listener(s, Resynced(s, query))
                   ELSE timeout[s]]
  /\ prev' = [s \in Slots |->
                IF Resyncs(s, query)
                THEN [prev[s] EXCEPT !["url"] = PopStateTracked(s, query)]
                ELSE prev[s]]
  /\ prevJsonStr' = [s \in Slots |->
                IF Resyncs(s, query)
                THEN [prevJsonStr[s] EXCEPT
                        !["url"] = JSONstringify(PopStateTracked(s, query))]
                ELSE prevJsonStr[s]]
  /\ cachedUrlSearch' =
       IF \E s \in Slots : popstateListeners[s] THEN query ELSE cachedUrlSearch
  /\ cachedParams' =
       IF \E s \in Slots : popstateListeners[s]
       THEN Parsed(PopStateParams(query)) ELSE cachedParams

\* The user goes back or forward in the session history: the address
\* becomes that of the entry and the window gets a popstate event.
Traverse(delta) ==
  /\ hasWindow
  /\ traversals < MaxTraversals
  /\ traversals' = traversals + 1
  /\ index + delta \in 1..Len(entries)
  /\ index' = index + delta
  /\ search' = entries[index + delta]
  /\ PopState(entries[index + delta])
  /\ held' = [s \in Slots |->
                IF Len(held[s]) = 0 THEN held[s]
                ELSE [held[s] EXCEPT ![index + delta] =
                        @ \cup {Project(binding[s].urlKeys, state'[s])}]]
  /\ lastOp' = [op |-> "popstate", slot |-> 1]
  /\ lastResync' = [s \in Slots |->
                      [changed |-> {k \in Fields : state'[s][k] # state[s][k]},
                       idle |-> ~timeout[s].pending /\ timeout'[s].pending]]
  /\ UNCHANGED <<registeredUrlStoreNames, registeredLocalStoreNames,
                 registeredSessionStoreNames, hasWindow, entries, historyCalls,
                 popstateListeners, uncaught, sessionStorage, localStorage,
                 binding, subscribed, writeCalls, setCalls>>

\* ----------------------------------------------------------- specification
\* One store: a page load that binds the persisted name once, and the life
\* of the store this call returns.
Bind ==
  \E keys \in KeySets, initializer \in Initializers, priority \in Priorities :
    CreatePersistStore(1, PersistedName, keys, initializer, priority, DefaultOptions)

Set == \E s \in Slots, k \in Fields, v \in Vals : SetState(s, k, v)

Fire == \E s \in Slots : TimerFires(s, {})

Teardown == \E s \in Slots : Destroy(s)

Next == Bind \/ Set \/ Fire \/ Teardown

Spec == Init /\ [][Next]_vars


\* Many calls of createPersistStore against the process-wide registry, each
\* for one or more categories, in a page that starts with empty substrates.
RegistryKeySets ==
  { [urlKeys |-> <<"a">>, sessionKeys |-> <<>>,    localKeys |-> <<>>],
    [urlKeys |-> <<>>,    sessionKeys |-> <<"a">>, localKeys |-> <<>>],
    [urlKeys |-> <<>>,    sessionKeys |-> <<>>,    localKeys |-> <<"a">>],
    [urlKeys |-> <<"a">>, sessionKeys |-> <<>>,    localKeys |-> <<"a", "b">>],
    [urlKeys |-> <<>>,    sessionKeys |-> <<>>,    localKeys |-> <<>>] }

BindAny ==
  \E s \in Slots, name \in Names, keys \in RegistryKeySets :
    CreatePersistStore(s, name, keys, EmptyState, DefaultPriority, DefaultOptions)

InitRegistry ==
  /\ Init
  /\ \A t \in StorageTypes : \A n \in Names : Substrate(t)[n] = NoItem

NextRegistry == BindAny

SpecRegistry == InitRegistry /\ [][NextRegistry]_vars

\* One store with URL keys and the base64 option: string values long enough
\* to cross the default threshold, and one that btoa rejects.
CodecKeySets ==
  { [urlKeys |-> <<"a", "b">>, sessionKeys |-> <<>>,    localKeys |-> <<>>],
    [urlKeys |-> <<"a">>,      sessionKeys |-> <<"b">>, localKeys |-> <<"a", "b">>] }

Base64Options ==
  { NoBase64, Base64(FALSE, 6), Base64(TRUE, Undefined), Base64(TRUE, 0),
    Base64(TRUE, 6), Base64(TRUE, 7) }

CodecVals == {Undefined, 1, Latin1String(92), Latin1String(93), WideString}

\* What an earlier load with base64 enabled left in the URL.
PersistedEncoded == Btoa(<< <<"a", Latin1String(93)>> >>)

InitCodec ==
  /\ InitModule
  /\ hasWindow = TRUE
  /\ sessionStorage = [n \in Names |-> NoItem]
  /\ localStorage = [n \in Names |-> NoItem]
  /\ \/ search = EmptyQuery
     \/ search = [p \in Params |->
                    IF p = PersistedName THEN PersistedEncoded
                    ELSE IF p = FlagParam(PersistedName) THEN OneItem ELSE NoItem]
  /\ entries = <<search>>

BindCodec ==
  \E keys \in CodecKeySets, base64 \in Base64Options :
    CreatePersistStore(1, PersistedName, keys, EmptyState, DefaultPriority,
                       [history |-> NoHistory, base64 |-> base64,
                        debounceDelay |-> Undefined])

SetCodec == \E s \in Slots, k \in Fields, v \in CodecVals : SetState(s, k, v)

NextCodec == BindCodec \/ SetCodec \/ Fire

SpecCodec == InitCodec /\ [][NextCodec]_vars

\* A page load over substrates whose entries may be malformed: the URL
\* parameter with the value of its flag, and the two storage entries.
DecodeUrl ==
  { <<NoItem, NoItem>>,
    <<JsonItem(<< <<"a", 1>> >>), NoItem>>,
    <<Btoa(<< <<"a", 1>> >>), OneItem>>,
    <<MalformedItem(<< <<"a", 1>> >>), NoItem>>,
    <<MalformedItem(<< <<"a", 1>> >>), OneItem>>,
    <<JsonItem(<< <<"a", 1>> >>), OneItem>>,
    <<Btoa(<< <<"a", 1>> >>), NoItem>> }

DecodeSession ==
  {NoItem, JsonItem(<< <<"a", 2>>, <<"b", 2>> >>), MalformedItem(<< <<"a", 2>>, <<"b", 2>> >>)}

DecodeLocal ==
  {NoItem, JsonItem(<< <<"b", 1>>, <<"a", Null>> >>), MalformedItem(<< <<"b", 1>>, <<"a", Null>> >>)}

InitDecode ==
  /\ InitModule
  /\ hasWindow = TRUE
  /\ \E u \in DecodeUrl :
       search = [p \in Params |->
                   IF p = PersistedName THEN u[1]
                   ELSE IF p = FlagParam(PersistedName) THEN u[2] ELSE NoItem]
  /\ entries = <<search>>
  /\ \E u \in DecodeSession :
       sessionStorage = [n \in Names |-> IF n = PersistedName THEN u ELSE NoItem]
  /\ \E u \in DecodeLocal :
       localStorage = [n \in Names |-> IF n = PersistedName THEN u ELSE NoItem]

NextDecode == Bind

SpecDecode == InitDecode /\ [][NextDecode]_vars

\* One store in a page that starts with empty substrates, each of whose
\* substrate calls (pushState / replaceState, setItem) may throw.
FailKeySets ==
  { [urlKeys |-> <<"a">>, sessionKeys |-> <<"a">>, localKeys |-> <<"a">>],
    [urlKeys |-> <<>>,    sessionKeys |-> <<"a">>, localKeys |-> <<"a", "b">>],
    [urlKeys |-> <<"a">>, sessionKeys |-> <<>>,    localKeys |-> <<>>] }

BindFail ==
  \E keys \in FailKeySets, initializer \in Initializers :
    CreatePersistStore(1, PersistedName, keys, initializer, DefaultPriority, DefaultOptions)

FireFail == \E s \in Slots, failing \in SUBSET StorageTypes : TimerFires(s, failing)

NextFail == BindFail \/ Set \/ FireFail

SpecFail == InitRegistry /\ [][NextFail]_vars

\* One store with URL keys and the history option, in a browser page or
\* where no window exists, over empty substrates or over what an earlier
\* load persisted.
HistoryKeySets ==
  { [urlKeys |-> <<"a", "b">>, sessionKeys |-> <<>>,         localKeys |-> <<>>],
    [urlKeys |-> <<"a">>,      sessionKeys |-> <<"a", "b">>, localKeys |-> <<"b", "a">>] }

HistoryOptions == {NoHistory, History(<<>>), History(<<"a">>), History(<<"b">>)}

InitHistory ==
  /\ InitModule
  /\ hasWindow \in BOOLEAN
  /\ \/ /\ search = EmptyQuery
        /\ sessionStorage = [n \in Names |-> NoItem]
        /\ localStorage = [n \in Names |-> NoItem]
     \/ /\ search = [p \in Params |->
                      IF p = PersistedName THEN JsonItem(<< <<"a", 1>> >>) ELSE NoItem]
        /\ sessionStorage = [n \in Names |->
                      IF n = PersistedName THEN JsonItem(<< <<"a", 2>>, <<"b", 2>> >>)
                      ELSE NoItem]
        /\ localStorage = [n \in Names |->
                      IF n = PersistedName THEN JsonItem(<< <<"b", 1>>, <<"a", Null>> >>)
                      ELSE NoItem]
  /\ entries = <<search>>

BindHistory ==
  \E keys \in HistoryKeySets, history \in HistoryOptions, initializer \in Initializers :
    CreatePersistStore(1, PersistedName, keys, initializer, DefaultPriority,
                       [history |-> history, base64 |-> NoBase64,
                        debounceDelay |-> Undefined])

NextHistory == BindHistory \/ Set \/ Fire \/ Teardown

SpecHistory == InitHistory /\ [][NextHistory]_vars

\* One store with URL keys and a history key in a browser page that starts
\* with empty substrates, and a user who goes back and forward.
NavKeySets ==
  { [urlKeys |-> <<"a", "b">>, sessionKeys |-> <<>>, localKeys |-> <<>>],
    [urlKeys |-> <<"a">>,      sessionKeys |-> <<>>, localKeys |-> <<"a", "b">>] }

NavVals == {Undefined, 1, 2}

BindNav ==
  \E keys \in NavKeySets :
    CreatePersistStore(1, PersistedName, keys, [a |-> 2, b |-> 1], DefaultPriority,
                       [history |-> History(<<"a">>), base64 |-> NoBase64,
                        debounceDelay |-> Undefined])

Back == Traverse(-1)

Forward == Traverse(1)

SetNav == \E s \in Slots, k \in Fields, v \in NavVals : SetState(s, k, v)

NextNav == BindNav \/ SetNav \/ Fire \/ Back \/ Forward \/ Teardown

SpecNav == InitRegistry /\ [][NextNav]_vars

\* Calls of createPersistStore for one name and calls of destroy() on the
\* stores they return, in a page that starts with empty substrates.
BindSame ==
  \E s \in Slots, keys \in RegistryKeySets :
    CreatePersistStore(s, PersistedName, keys, EmptyState, DefaultPriority, DefaultOptions)

NextRebind == BindSame \/ Teardown

SpecRebind == InitRegistry /\ [][NextRebind]_vars

\* Two stores in one page, the first named x and the second y or x_encoded,
\* each with a URL key a and a localStorage key b, with or without base64;
\* the address may hold parameters no store of this page wrote.
TwoKeySets ==
  { [urlKeys |-> <<"a">>, sessionKeys |-> <<>>, localKeys |-> <<"b">>] }

TwoBase64 == {NoBase64, Base64(TRUE, 6)}

TwoVals == {Undefined, 1, 2}

ForeignQuery ==
  [p \in Params |->
     IF p = "y" THEN Btoa(<< <<"a", 2>> >>)
     ELSE IF p = FlagParam("y") THEN OneItem ELSE NoItem]

InitTwo ==
  /\ InitModule
  /\ hasWindow = TRUE
  /\ sessionStorage = [n \in Names |-> NoItem]
  /\ localStorage = [n \in Names |-> NoItem]
  /\ search \in {EmptyQuery, ForeignQuery}
  /\ entries = <<search>>

BindTwo ==
  \E s \in {1, 2}, name \in Names, keys \in TwoKeySets, base64 \in TwoBase64 :
    /\ s = 1 => name = "x"
    /\ s = 2 => name # "x"
    /\ CreatePersistStore(s, name, keys, EmptyState, DefaultPriority,
                          [history |-> NoHistory, base64 |-> base64,
                           debounceDelay |-> Undefined])

SetTwo == \E s \in Slots, partial \in [Fields -> TwoVals] : SetPartial(s, partial)

NextTwo == BindTwo \/ SetTwo \/ Fire

SpecTwo == InitTwo /\ [][NextTwo]_vars

\* One store with a URL key under a clock: the delay option left out, zero,
\* or 200 ms; time passes in steps of 1 ms and 99 ms and a timer fires when
\* its delay is over.
DelayOptions == {Undefined, 0, 200}

TickSteps == {1, 99}

BindTimed ==
  \E debounceDelay \in DelayOptions :
    CreatePersistStore(1, PersistedName,
                       [urlKeys |-> <<"a">>, sessionKeys |-> <<>>, localKeys |-> <<>>],
                       EmptyState, DefaultPriority,
                       [history |-> NoHistory, base64 |-> NoBase64,
                        debounceDelay |-> debounceDelay])

Elapse == \E d \in TickSteps : Tick(d)

FireDue == \E s \in Slots : Due(s) /\ TimerFires(s, {})

NextTimed == BindTimed \/ Set \/ Elapse \/ FireDue

SpecTimed == InitRegistry /\ [][NextTimed]_vars

\* ------------------------------------------------------------- step shapes
BindStep(s) == binding[s].status = "unbound" /\ binding'[s].status = "bound"

CallStep(s) == binding[s].status = "unbound" /\ binding'[s].status # "unbound"

FireStep(s) == timeout[s].pending /\ ~timeout'[s].pending

SetStep(s) == setCalls' # setCalls /\ lastOp'.slot = s

Live(s) == binding[s].status = "bound" /\ subscribed[s]

Declares(b, t, k) == Includes(KeysOf(b, t), k)

\* The value the substrate of t holds for key k under the name (undefined if
\* none), read the way the adapters read it.
Persisted(t, name, k) == Read(t, name, <<k>>)[k]

NoSubstrateWrite ==
  /\ writeCalls' = writeCalls
  /\ historyCalls' = historyCalls
  /\ search' = search
  /\ sessionStorage' = sessionStorage
  /\ localStorage' = localStorage

\* Positions of the priority list whose storage type declares k and holds a
\* value for it.
Yielding(b, k) ==
  {i \in 1..Len(b.priority) :
     /\ Declares(b, b.priority[i], k)
     /\ Persisted(b.priority[i], b.name, k) # Undefined}

\* --------------------------------------------------------------------- C1
\* C1. Priority correctness at bind: for a key declared in two backends B
\* and C, B before C in the priority order, both holding a persisted value
\* under the store name (and no backend earlier than B yielding one), the
\* store's initial value for the key is B's value, and not C's when the two
\* differ.
C1_PriorityCorrectness ==
  [][\A s \in Slots : BindStep(s) =>
       LET b == binding'[s] IN
       \A k \in Fields : \A i, j \in 1..Len(b.priority) :
         ( /\ i < j
           /\ i \in Yielding(b, k)
           /\ j \in Yielding(b, k)
           /\ \A h \in 1..(i - 1) : h \notin Yielding(b, k) )
         => /\ state'[s][k] = Persisted(b.priority[i], b.name, k)
            /\ Persisted(b.priority[j], b.name, k) # Persisted(b.priority[i], b.name, k)
                 => state'[s][k] # Persisted(b.priority[j], b.name, k)]_vars

\* A store just bound under the custom order local, session, url whose key a
\* is declared in all three backends, while local and url hold different
\* values for it: the store starts at local's value.
C1_Witness ==
  \E s \in Slots :
    /\ lastOp = [op |-> "bind", slot |-> s]
    /\ binding[s].status = "bound"
    /\ binding[s].priority = <<"local", "session", "url">>
    /\ Declares(binding[s], "local", "a") /\ Declares(binding[s], "url", "a")
    /\ Persisted("local", binding[s].name, "a") # Undefined
    /\ Persisted("url", binding[s].name, "a") # Undefined
    /\ Persisted("url", binding[s].name, "a") # Persisted("local", binding[s].name, "a")
    /\ state[s]["a"] = Persisted("local", binding[s].name, "a")

\* --------------------------------------------------------------------- C2
\* C2. Priority fall-through at bind, per key: when the first backend in the
\* order that declares the key yields no value, the key takes the value of
\* the next backend in the order that declares it and yields one; when no
\* backend yields a value the key keeps its initializer default.
C2_FallThrough ==
  [][\A s \in Slots : BindStep(s) =>
       LET b == binding'[s] IN
       \A k \in Fields :
         LET declaring == {i \in 1..Len(b.priority) : Declares(b, b.priority[i], k)}
             yielding == Yielding(b, k)
         IN /\ yielding = {} => state'[s][k] = b.initializer[k]
            /\ ( /\ yielding # {}
                 /\ \E i \in declaring : \A j \in yielding : i < j )
               => \E j \in yielding :
                    /\ \A h \in yielding : j <= h
                    /\ state'[s][k] = Persisted(b.priority[j], b.name, k)]_vars

\* A store just bound with default order whose key b is declared in session
\* and local, session holding no value for b and local holding one, while
\* key a, declared in url too, is taken from another backend: b fell through
\* to local on its own.
C2_Witness ==
  \E s \in Slots :
    /\ lastOp = [op |-> "bind", slot |-> s]
    /\ binding[s].status = "bound"
    /\ binding[s].priority = DefaultPriority
    /\ Declares(binding[s], "session", "b") /\ Declares(binding[s], "local", "b")
    /\ Persisted("session", binding[s].name, "b") = Undefined
    /\ Persisted("local", binding[s].name, "b") # Undefined
    /\ state[s]["b"] = Persisted("local", binding[s].name, "b")
    /\ state[s]["b"] # binding[s].initializer["b"]
    /\ Persisted("url", binding[s].name, "a") # Undefined
    /\ state[s]["a"] = Persisted("url", binding[s].name, "a")


\* The text the writer of t would store for a state.
PayloadOf(s, t, st) == DataStr(KeysOf(binding[s], t), Project(KeysOf(binding[s], t), st))

HasKey(text, k) == \E i \in 1..Len(text) : text[i][1] = k

\* --------------------------------------------------------------------- C3
\* C3. Debounce coalescing: when the timer of a live store fires after a
\* burst of transitions, every payload the flush writes is the payload of
\* the state after the final transition (the store's state at that moment),
\* never that of an intermediate state.
C3_DebounceCoalescing ==
  [][\A s \in Slots : (Live(s) /\ FireStep(s)) =>
       \A t \in StorageTypes :
         writeCalls'[t] # writeCalls[t] =>
           Substrate(t)'[binding[s].name] = JsonItem(PayloadOf(s, t, state[s]))]_vars

\* --------------------------------------------------------------------- C4
\* C4. State persists across reloads: once a live store is quiet (no timer
\* pending), every backend that declares a key whose value differs from the
\* value at bind holds the store's current value for that key.
C4_PersistsAcrossReloads ==
  \A s \in Slots : (Live(s) /\ ~timeout[s].pending) =>
    \A t \in StorageTypes : \A k \in Fields :
      (Declares(binding[s], t, k) /\ state[s][k] # binding[s].initialState[k])
        => Persisted(t, binding[s].name, k) = state[s][k]

\* --------------------------------------------------------------------- C5
\* C5. Teardown safety: a state transition of a destroyed store schedules no
\* flush (the debounce closure is left as it was) and writes to no substrate.
C5_TeardownSafety ==
  [][\A s \in Slots : (binding[s].status = "destroyed" /\ SetStep(s)) =>
       /\ timeout' = timeout
       /\ NoSubstrateWrite]_vars

\* A destroyed store whose last operation was a transition that left a
\* declared key different from the tracked snapshot, with no timer pending.
C5_Witness ==
  \E s \in Slots :
    /\ binding[s].status = "destroyed"
    /\ lastOp = [op |-> "set", slot |-> s]
    /\ AnyChange(s, state[s])
    /\ ~timeout[s].pending
    /\ \A t \in StorageTypes : writeCalls[t] = 0

\* --------------------------------------------------------------------- C6
\* C6. Destroy cancels pending work: a timer that fires after destroy()
\* performs no write on any substrate.
C6_DestroyCancelsPending ==
  [][\A s \in Slots : (binding[s].status = "destroyed" /\ FireStep(s)) =>
       NoSubstrateWrite]_vars


\* --------------------------------------------------------------------- C7
Registered(t) ==
  IF t = "url" THEN registeredUrlStoreNames
  ELSE IF t = "session" THEN registeredSessionStoreNames
  ELSE registeredLocalStoreNames

ConflictMessage(t) ==
  IF t = "url" THEN "URL store name conflict"
  ELSE IF t = "session" THEN "sessionStorage store name conflict"
  ELSE "localStorage store name conflict"

\* C7. Conflict rejection: a call that declares a non-empty key set for a
\* category in which the name is already registered throws an error naming
\* such a category; a call whose non-empty key sets are all for categories
\* in which the name is not registered succeeds and registers the name there.
C7_ConflictRejection ==
  [][\A s \in Slots : CallStep(s) =>
       LET b == binding'[s]
           conflicts == {t \in StorageTypes :
                           Len(KeysOf(b, t)) > 0 /\ b.name \in Registered(t)}
       IN /\ conflicts # {} =>
               /\ b.status = "threw"
               /\ \E t \in conflicts : b.error = ConflictMessage(t)
          /\ conflicts = {} =>
               /\ b.status = "bound"
               /\ \A t \in StorageTypes :
                    Len(KeysOf(b, t)) > 0 => b.name \in Registered(t)']_vars

\* One name bound three times, once per category, and a further call for
\* the URL category under that name rejected with the URL conflict error.
C7_Witness ==
  \E n \in Names : \E s1, s2, s3, s4 \in Slots :
    /\ \A s \in {s1, s2, s3, s4} : binding[s].name = n
    /\ \A s \in {s1, s2, s3} : binding[s].status = "bound"
    /\ Len(binding[s1].urlKeys) > 0 /\ ~HasAnyStorage([binding[s1] EXCEPT !.urlKeys = <<>>])
    /\ Len(binding[s2].localKeys) > 0 /\ ~HasAnyStorage([binding[s2] EXCEPT !.localKeys = <<>>])
    /\ Len(binding[s3].sessionKeys) > 0
    /\ ~HasAnyStorage([binding[s3] EXCEPT !.sessionKeys = <<>>])
    /\ binding[s4].status = "threw"
    /\ binding[s4].error = "URL store name conflict"
    /\ Len(binding[s4].urlKeys) > 0

\* --------------------------------------------------------------------- C8
\* C8. Write fan-out: when the timer fires with a state whose value for a key
\* declared in all three backends differs from the value each backend
\* tracks, the flush calls each of the three substrates exactly once and each
\* payload written carries the same value for the key, whatever the
\* priority option is.
C8_WriteFanOut ==
  [][\A s \in Slots : FireStep(s) =>
       \A k \in Fields :
         ( /\ \A t \in StorageTypes : Declares(binding[s], t, k)
           /\ \A t \in StorageTypes :
                JSONparse(prevJsonStr[s][t])[k] # timeout[s].currentState[k] )
         => \A t \in StorageTypes :
              /\ writeCalls'[t] = writeCalls[t] + 1
              /\ Substrate(t)'[binding[s].name].kind = "json"
              /\ JSONparse(Substrate(t)'[binding[s].name].text)[k]
                   = timeout[s].currentState[k]]_vars

\* After one transition and its flush, a store whose priority list is
\* session, local (url omitted) holds the same number for key a in all three
\* substrates, each written once.
C8_Witness ==
  \E s \in Slots :
    /\ lastOp = [op |-> "fire", slot |-> s]
    /\ setCalls = 1
    /\ binding[s].priority = <<"session", "local">>
    /\ \A t \in StorageTypes :
         /\ Declares(binding[s], t, "a")
         /\ writeCalls[t] = 1
         /\ Persisted(t, binding[s].name, "a") = 2
    /\ state[s]["a"] = 2
    /\ binding[s].initialState["a"] # 2

\* --------------------------------------------------------------------- C9
\* C9. Idempotence: a flush never calls the substrate of a backend whose
\* payload for the flushed state is the text already tracked for it, and a
\* transition of a quiet live store to a state whose payloads are the texts
\* already written to every declared backend schedules nothing and writes
\* nothing.
C9_Idempotence ==
  [][\A s \in Slots :
       /\ FireStep(s) =>
            \A t \in StorageTypes :
              ( /\ Len(KeysOf(binding[s], t)) > 0
                /\ PayloadOf(s, t, timeout[s].currentState) = prevJsonStr[s][t] )
              => /\ writeCalls'[t] = writeCalls[t]
                 /\ Substrate(t)' = Substrate(t)
       /\ ( /\ SetStep(s)
            /\ Live(s)
            /\ ~timeout[s].pending
            /\ \A t \in StorageTypes :
                 Len(KeysOf(binding[s], t)) > 0 =>
                   /\ Substrate(t)[binding[s].name] = JsonItem(prevJsonStr[s][t])
                   /\ PayloadOf(s, t, state'[s]) = prevJsonStr[s][t] )
          => /\ ~timeout'[s].pending
             /\ NoSubstrateWrite]_vars

\* A live store that was set, flushed (one write per declared backend) and
\* set again: the last operation is the second set, the state still has the
\* written payloads, no timer is pending and the write counts are unchanged.
C9_Witness ==
  \E s \in Slots :
    /\ Live(s)
    /\ lastOp = [op |-> "set", slot |-> s]
    /\ setCalls = 2
    /\ ~timeout[s].pending
    /\ HasAnyStorage(binding[s])
    /\ \A t \in StorageTypes :
         Len(KeysOf(binding[s], t)) > 0 =>
           /\ writeCalls[t] = 1
           /\ Substrate(t)[binding[s].name] = JsonItem(PayloadOf(s, t, state[s]))

Configured(b) == IF b.base64.threshold = Undefined THEN 100 ELSE b.base64.threshold

\* The flush of slot s called the History API.
UrlWriteStep(s) == FireStep(s) /\ writeCalls'["url"] # writeCalls["url"]

\* -------------------------------------------------------------------- C11
\* C11. Encoding threshold boundary: when a flush writes the URL payload of
\* a store with base64 enabled and configured threshold T (100 if none is
\* configured), a payload of length exactly T is stored as the JSON text
\* with no flag, and a payload of length T + 1 is stored base64-transformed
\* with the flag set to 1; with base64 disabled or absent the payload is
\* stored as the JSON text.
C11_ThresholdBoundary ==
  [][\A s \in Slots : UrlWriteStep(s) =>
       LET b == binding[s]
           payload == PayloadOf(s, "url", timeout[s].currentState)
       IN /\ (b.base64.enabled /\ Length(payload) = Configured(b))
               => /\ search'[b.name] = JsonItem(payload)
                  /\ encoded'[b.name] = NoFlag
          /\ (b.base64.enabled /\ Length(payload) = Configured(b) + 1)
               => /\ search'[b.name] = Btoa(payload)
                  /\ encoded'[b.name] = "1"
          /\ ~b.base64.enabled => search'[b.name] = JsonItem(payload)]_vars

\* Right after a flush of a store with base64 enabled and no threshold
\* configured: the payload of the store's state is 101 characters long and
\* the URL holds its base64 transform with the flag.
C11_Witness ==
  \E s \in Slots :
    /\ lastOp = [op |-> "fire", slot |-> s]
    /\ binding[s].base64 = Base64(TRUE, Undefined)
    /\ Length(PayloadOf(s, "url", state[s])) = 101
    /\ search[binding[s].name] = Btoa(PayloadOf(s, "url", state[s]))
    /\ encoded[binding[s].name] = "1"
    /\ writeCalls["url"] = 1

\* -------------------------------------------------------------------- C12
\* C12. Sibling flag: after every URL write of a store, the parameter
\* name_encoded is 1 if and only if the parameter under the name holds the
\* base64 transform of the payload; a write of a payload shorter than the
\* threshold leaves no flag, whatever flag was there before.
C12_SiblingFlag ==
  [][\A s \in Slots : UrlWriteStep(s) =>
       LET b == binding[s]
           payload == PayloadOf(s, "url", timeout[s].currentState)
       IN /\ encoded'[b.name] = "1" <=> search'[b.name] = Btoa(payload)
          /\ encoded'[b.name] # "1" <=> search'[b.name] = JsonItem(payload)
          /\ (encoded[b.name] = "1" /\ Length(payload) < Configured(b))
               => encoded'[b.name] = NoFlag]_vars

\* A store with base64 enabled and threshold 6 after its second URL write:
\* the URL holds the plain text {} without the flag (the write before it
\* was of a longer payload, hence transformed and flagged).
C12_Witness ==
  \E s \in Slots :
    /\ lastOp = [op |-> "fire", slot |-> s]
    /\ binding[s].base64 = Base64(TRUE, 6)
    /\ writeCalls["url"] = 2
    /\ search[binding[s].name] = JsonItem(<<>>)
    /\ encoded[binding[s].name] = NoFlag

\* -------------------------------------------------------------------- C13
\* C13. Round-trip: when a flush hands a snapshot to the writer of a backend
\* and the writer gets past its early returns, reading the name from that
\* backend with the same keys afterwards returns the snapshot, key by key,
\* on the plain and on the base64 path of the URL.
C13_RoundTrip ==
  [][\A s \in Slots : FireStep(s) =>
       \A t \in StorageTypes :
         Writes(s, t) =>
           \A k \in Fields :
             Declares(binding[s], t, k) =>
               Read(t, binding[s].name, KeysOf(binding[s], t))'[k]
                 = timeout[s].currentState[k]]_vars

\* -------------------------------------------------------------------- C14
\* The text a backend holds under the name cannot be decoded: it is not a
\* JSON text where one is expected, or not a base64 text although the flag
\* is set.
Malformed(t, name) ==
  LET raw == Substrate(t)[name] IN
  /\ raw.kind # "none"
  /\ IF t = "url" /\ encoded[name] = "1" THEN raw.kind # "b64" ELSE raw.kind # "json"

\* The value a decodable entry carries for a key (undefined if none).
Carried(t, name, k) ==
  IF Substrate(t)[name].kind = "none" THEN Undefined
  ELSE JSONparse(Substrate(t)[name].text)[k]

\* C14. Fail-soft decode: when a backend's text under the name is
\* malformed, reading it returns the empty mapping, the call of
\* createPersistStore does not throw, and every key that backend declares
\* starts at the value of the first backend in the priority order that
\* declares it, is decodable and carries a value for it, or at its
\* initializer default if there is none.
C14_FailSoftDecode ==
  [][\A s \in Slots : CallStep(s) =>
       LET b == binding'[s] IN
       \A t \in StorageTypes :
         Malformed(t, b.name) =>
           /\ \A k \in Fields : Read(t, b.name, KeysOf(b, t))[k] = Undefined
           /\ b.status = "bound"
           /\ \A k \in Fields :
                Declares(b, t, k) =>
                  LET good == {i \in 1..Len(b.priority) :
                                 /\ Declares(b, b.priority[i], k)
                                 /\ ~Malformed(b.priority[i], b.name)
                                 /\ Carried(b.priority[i], b.name, k) # Undefined}
                  IN IF good = {} THEN state'[s][k] = b.initializer[k]
                     ELSE \E i \in good :
                            /\ \A j \in good : i <= j
                            /\ state'[s][k] = Carried(b.priority[i], b.name, k)]_vars

\* A store just bound with the default order over a URL whose flag is set
\* while the parameter is not base64, and a decodable session entry: key a,
\* declared in both, starts at the session value; the store's initializer
\* has another value for it.
C14_Witness ==
  \E s \in Slots :
    /\ lastOp = [op |-> "bind", slot |-> s]
    /\ binding[s].status = "bound"
    /\ binding[s].priority = DefaultPriority
    /\ encoded[binding[s].name] = "1"
    /\ search[binding[s].name].kind = "json"
    /\ Malformed("url", binding[s].name)
    /\ Declares(binding[s], "url", "a") /\ Declares(binding[s], "session", "a")
    /\ ~Malformed("session", binding[s].name)
    /\ Carried("session", binding[s].name, "a") = 2
    /\ state[s]["a"] = 2
    /\ binding[s].initializer["a"] # 2

\* -------------------------------------------------------------------- C15
\* C15. Write failures are non-fatal: whichever substrate calls throw
\* during a flush, no exception leaves the timer callback.
C15_WriteFailuresNonFatal ==
  [][\A s \in Slots : FireStep(s) => uncaught' = uncaught]_vars

\* -------------------------------------------------------------------- C16
\* C16. A failed write counts as skipped: a transition of a live store to a
\* state whose payload for a backend differs from the text last written to
\* that backend with success leaves a flush scheduled.
C16_FailedWriteRetried ==
  [][\A s \in Slots : (SetStep(s) /\ Live(s)) =>
       \A t \in StorageTypes :
         ( /\ Len(KeysOf(binding[s], t)) > 0
           /\ Substrate(t)[binding[s].name].kind = "json"
           /\ PayloadOf(s, t, state'[s]) # Substrate(t)[binding[s].name].text )
         => timeout'[s].pending]_vars

\* -------------------------------------------------------------------- C17
\* C17. Non-browser context: without a window, a call of
\* createPersistStore does not throw, every adapter read returns the empty
\* mapping and the store starts at its initializer's state, no popstate
\* listener is ever registered, and a flush calls no substrate, changes
\* none and lets no exception out.
C17_NonBrowserContext ==
  [][~hasWindow =>
       \A s \in Slots :
         /\ CallStep(s) =>
              /\ binding'[s].status = "bound"
              /\ state'[s] = binding'[s].initializer
              /\ \A t \in StorageTypes : \A k \in Fields :
                   Read(t, binding'[s].name, KeysOf(binding'[s], t))[k] = Undefined
         /\ ~popstateListeners'[s]
         /\ FireStep(s) =>
              /\ NoSubstrateWrite
              /\ uncaught' = uncaught]_vars

\* Without a window, over substrates that hold persisted values: a store
\* bound with a history key among its URL keys, set to a state that differs
\* from its initializer's, after the flush of that change: no substrate was
\* called, the URL is as it was and no listener is registered.
C17_Witness ==
  \E s \in Slots :
    /\ ~hasWindow
    /\ lastOp = [op |-> "fire", slot |-> s]
    /\ UseHistory(binding[s])
    /\ \A t \in StorageTypes : Len(KeysOf(binding[s], t)) > 0
    /\ state[s]["a"] # binding[s].initializer["a"]
    /\ binding[s].initialState = binding[s].initializer
    /\ \A t \in StorageTypes :
         /\ writeCalls[t] = 0
         /\ Substrate(t)[binding[s].name].kind = "json"
    /\ search[binding[s].name] = JsonItem(<< <<"a", 1>> >>)
    /\ ~popstateListeners[s]

\* -------------------------------------------------------------------- C18
\* The flushed state carries, for some key of the history list, a value
\* other than the one tracked for that key since the last flush (or since
\* bind).
HistoryKeyChanged(s) ==
  \E i \in 1..Len(HistoryKeys(binding[s])) :
    LET k == HistoryKeys(binding[s])[i] IN
    \E t \in StorageTypes :
      /\ Declares(binding[s], t, k)
      /\ Get(prev[s][t], k) # timeout[s].currentState[k]

\* C18. History entries only for history keys: a URL write of a store with
\* a non-empty history list calls pushState only if the value of a listed
\* key changed, and calls replaceState when no listed key's value changed.
C18_HistoryOnlyForHistoryKeys ==
  [][\A s \in Slots :
       (UrlWriteStep(s) /\ Len(HistoryKeys(binding[s])) > 0) =>
         /\ historyCalls'.pushState # historyCalls.pushState => HistoryKeyChanged(s)
         /\ ~HistoryKeyChanged(s) =>
              historyCalls'.replaceState = historyCalls.replaceState + 1]_vars

C20_PushWhenHistoryAbsent ==
  [][\A s \in Slots :
       (UrlWriteStep(s) /\ ~binding[s].history.given) =>
         historyCalls'.pushState = historyCalls.pushState + 1]_vars

\* ------------------------------------------------------------- navigation
\* The step is a back or forward navigation with its popstate event.
NavStep == traversals' # traversals

\* The value the address holds for key k under the name (undefined if none).
InAddress(name, k) == ReadFromUrl(search[name], Flags(search)[name], <<k>>)[k]

\* -------------------------------------------------------------------- C21
\* C21. Browser navigation restores previous states: after a back or forward
\* navigation to a history entry, the URL-key values of a live store with
\* history keys are values the store held while that entry was current; this
\* includes the entry that was current before the store's first URL write.
C21_NavigationRestores ==
  [][\A s \in Slots : (NavStep /\ popstateListeners[s]) =>
       Project(binding[s].urlKeys, state'[s]) \in held[s][index']]_vars

\* -------------------------------------------------------------------- C22
\* C22. Navigation re-sync: on a popstate event for a live store with
\* history keys, the cache is discarded and holds the parse of the current
\* address afterwards; every URL key for which the address holds a value
\* other than the store's has the address's value in the store afterwards,
\* and every field outside the URL keys keeps its value.
C22_NavigationResync ==
  [][\A s \in Slots : (NavStep /\ popstateListeners[s]) =>
       /\ cachedUrlSearch' = search'
       /\ cachedParams' = Parsed(search')
       /\ \A k \in Fields :
            IF Declares(binding[s], "url", k)
            THEN ( /\ InAddress(binding[s].name, k)' # Undefined
                   /\ InAddress(binding[s].name, k)' # state[s][k] )
                 => state'[s][k] = InAddress(binding[s].name, k)'
            ELSE state'[s][k] = state[s][k]]_vars

\* Right after the first navigation, a step back from the third entry to
\* the second: two transitions of key a were flushed, each into an entry of
\* its own, the entry left holds 2 for a, the address and the store hold 1,
\* and b, which is no URL key, has the value the initializer gave it.
C22_Witness ==
  \E s \in Slots :
    /\ lastOp.op = "popstate"
    /\ popstateListeners[s]
    /\ traversals = 1 /\ setCalls = 2
    /\ Len(entries) = 3 /\ index = 2
    /\ entries[3][binding[s].name] = JsonItem(<< <<"a", 2>> >>)
    /\ InAddress(binding[s].name, "a") = 1
    /\ state[s]["a"] = 1
    /\ ~Declares(binding[s], "url", "b")
    /\ state[s]["b"] = 1

\* -------------------------------------------------------------------- C28
\* C28. destroy() deregisters the navigation listener: a popstate event
\* after destroy() changes neither the store's state nor the snapshot it
\* tracks for the URL.
C28_DestroyDeregisters ==
  [][\A s \in Slots : (NavStep /\ binding[s].status = "destroyed") =>
       /\ state'[s] = state[s]
       /\ prev'[s] = prev[s]
       /\ prevJsonStr'[s] = prevJsonStr[s]]_vars

\* A destroyed store with history keys right after a navigation: the
\* address holds a value for a, the store another one.
C28_Witness ==
  \E s \in Slots :
    /\ binding[s].status = "destroyed"
    /\ UseHistory(binding[s])
    /\ lastOp.op = "popstate"
    /\ InAddress(binding[s].name, "a") # Undefined
    /\ InAddress(binding[s].name, "a") # state[s]["a"]
    /\ Get(prev[s]["url"], "a") # InAddress(binding[s].name, "a")

\* -------------------------------------------------------------------- C29
\* C29. A flush serializes the current state at fire time: the text each
\* writer builds when the timer fires is the payload of the state the store
\* has at that moment, whatever transitions or navigations happened since
\* the timer was set.
C29_FlushSerializesCurrent ==
  [][\A s \in Slots : FireStep(s) =>
       \A t \in StorageTypes :
         Len(KeysOf(binding[s], t)) > 0 => FlushStr(s, t) = PayloadOf(s, t, state[s])]_vars

\* -------------------------------------------------------------------- C30
\* C30. A navigation re-sync while a flush timer is pending leaves the timer
\* as it is: still pending, with the arguments, the delay and the elapsed
\* time it had.
C30_ResyncKeepsTimer ==
  [][\A s \in Slots : (NavStep /\ timeout[s].pending) => timeout'[s] = timeout[s]]_vars

\* -------------------------------------------------------------------- C26
\* The flush delay a store configures: options.debounceDelay, 100 ms when
\* the option is left out.
ConfiguredDelay(b) == IF b.debounceDelay = Undefined THEN 100 ELSE b.debounceDelay

\* C26. Quiet-period timing: a dirty transition of a live store starts the
\* wait anew; a substrate is written only when the configured delay (100 ms
\* if none is configured) has passed since the most recent dirty transition;
\* once it has passed no more time passes before the timer fires, and the
\* firing writes.
C26_QuietPeriod ==
  [][\A s \in Slots :
       /\ (SetStep(s) /\ Live(s) /\ AnyChange(s, state'[s]))
            => timeout'[s].pending /\ timeout'[s].elapsed = 0
       /\ (SetStep(s) /\ Live(s) /\ ~AnyChange(s, state'[s]))
            => timeout'[s] = timeout[s]
       /\ (lastOp'.slot = s /\ ~NoSubstrateWrite)
            => timeout[s].pending /\ timeout[s].elapsed >= ConfiguredDelay(binding[s])
       /\ (timeout[s].pending /\ timeout[s].elapsed >= ConfiguredDelay(binding[s]))
            => /\ lastOp'.op # "tick"
               /\ FireStep(s) => writeCalls' # writeCalls]_vars

\* A store bound without the delay option right after its first flush: two
\* transitions were made before it and the URL was written once.
C26_Witness ==
  \E s \in Slots :
    /\ lastOp = [op |-> "fire", slot |-> s]
    /\ binding[s].debounceDelay = Undefined
    /\ setCalls = 2
    /\ writeCalls["url"] = 1
    /\ search[binding[s].name] = JsonItem(PayloadOf(s, "url", state[s]))

\* -------------------------------------------------------------------- C23
\* The store of slot s has URL keys, so that the parameter under its name
\* and the flag parameter of its name are its own.
OwnsParams(s) == binding[s].status = "bound" /\ Len(binding[s].urlKeys) > 0

\* C23. Independent query parameters: a URL write of a store leaves the
\* payload parameter and the flag parameter of every other store with URL
\* keys and another name as they were, and every parameter that is neither
\* the payload parameter nor the flag parameter of any store.
C23_IndependentParameters ==
  [][\A s \in Slots : UrlWriteStep(s) =>
       /\ \A r \in Slots :
            (OwnsParams(r) /\ binding[r].name # binding[s].name) =>
              /\ search'[binding[r].name] = search[binding[r].name]
              /\ search'[FlagParam(binding[r].name)] = search[FlagParam(binding[r].name)]
       /\ \A p \in Params :
            (\A r \in Slots : OwnsParams(r) =>
                p # binding[r].name /\ p # FlagParam(binding[r].name))
            => search'[p] = search[p]]_vars

\* -------------------------------------------------------------------- C24
\* C24. Selective write projection: every payload a flush writes to a
\* backend carries only keys of that backend's declared key set, also when a
\* field outside the key set changed in the same transition as a declared
\* key.
C24_WriteProjection ==
  [][\A s \in Slots : FireStep(s) =>
       \A t \in StorageTypes :
         writeCalls'[t] # writeCalls[t] =>
           \A k \in Fields :
             HasKey(Substrate(t)'[binding[s].name].text, k) => Declares(binding[s], t, k)]_vars

\* Right after the flush of one transition that changed a and b together: a
\* is a URL key only and b a localStorage key only; the URL payload carries
\* a alone and the localStorage payload b alone.
C24_Witness ==
  \E s \in Slots :
    /\ lastOp = [op |-> "fire", slot |-> s]
    /\ setCalls = 1
    /\ binding[s].urlKeys = <<"a">> /\ binding[s].localKeys = <<"b">>
    /\ state[s] = [a |-> 1, b |-> 2]
    /\ binding[s].initialState = EmptyState
    /\ search[binding[s].name] = JsonItem(<< <<"a", 1>> >>)
    /\ localStorage[binding[s].name] = JsonItem(<< <<"b", 2>> >>)

\* -------------------------------------------------------------------- C25
\* C25. Selective read projection at bind: the value a key starts with is
\* its initializer default or the value a backend that declares the key
\* holds for it; a field a persisted payload carries is not copied from a
\* backend whose key set does not list it, and a field listed in no key set
\* keeps its initializer default.
C25_ReadProjection ==
  [][\A s \in Slots : BindStep(s) =>
       LET b == binding'[s] IN
       \A k \in Fields :
         /\ \/ state'[s][k] = b.initializer[k]
            \/ \E t \in StorageTypes :
                 Declares(b, t, k) /\ Carried(t, b.name, k) = state'[s][k]
         /\ (\A t \in StorageTypes : ~Declares(b, t, k))
              => state'[s][k] = b.initializer[k]]_vars

\* A store just bound over a session entry and a local entry that both
\* carry b, with a declared in every backend and b in none: a was adopted
\* and b is undefined, as the initializer left it.
C25_Witness ==
  \E s \in Slots :
    /\ lastOp = [op |-> "bind", slot |-> s]
    /\ binding[s].status = "bound"
    /\ \A t \in StorageTypes : Declares(binding[s], t, "a") /\ ~Declares(binding[s], t, "b")
    /\ Carried("session", binding[s].name, "b") = 2
    /\ Carried("local", binding[s].name, "b") = 1
    /\ binding[s].initializer = EmptyState
    /\ state[s]["b"] = Undefined
    /\ state[s]["a"] # Undefined

\* -------------------------------------------------------------------- C27
\* C27. Registry entries are never removed: each registry set only grows,
\* destroy() leaves the three sets as they are, and a call that declares
\* keys for a category in which a destroyed store of the same name declared
\* keys throws a conflict error.
C27_RegistryOnlyGrows ==
  [][/\ \A t \in StorageTypes : Registered(t) \subseteq Registered(t)'
     /\ lastOp'.op = "destroy" => \A t \in StorageTypes : Registered(t)' = Registered(t)
     /\ \A s \in Slots : CallStep(s) =>
          \A t \in StorageTypes : \A r \in Slots :
            ( /\ binding[r].status = "destroyed"
              /\ binding[r].name = binding'[s].name
              /\ Len(KeysOf(binding[r], t)) > 0
              /\ Len(KeysOf(binding'[s], t)) > 0 )
            => /\ binding'[s].status = "threw"
               /\ \E u \in StorageTypes : binding'[s].error = ConflictMessage(u)]_vars

\* A store with URL keys was bound and destroyed, and the next call for its
\* name with URL keys was rejected with the URL conflict error.
C27_Witness ==
  \E r, s \in Slots :
    /\ binding[r].status = "destroyed"
    /\ Len(binding[r].urlKeys) > 0
    /\ lastOp = [op |-> "bind", slot |-> s]
    /\ binding[s].name = binding[r].name
    /\ Len(binding[s].urlKeys) > 0
    /\ binding[s].status = "threw"
    /\ binding[s].error = "URL store name conflict"
    /\ \A q \in Slots : (q # r /\ q # s) => binding[q].status = "unbound"

\* -------------------------------------------------------------------- C31
\* The debounce closure of slot s is given new arguments in this step
\* (debouncedPersist was called), as opposed to time passing on its timer.
Schedules(s) ==
  /\ timeout'[s].pending
  /\ timeout'[s].elapsed = 0
  /\ (~timeout[s].pending \/ timeout'[s] # timeout[s])

\* C31: the flag that decides between pushState and replaceState is the one
\* computed at the transition that scheduled the pending timer, from that
\* transition's state and the navigation snapshot tracked then; it stays as
\* it is while the timer is pending, and the navigation write of the flush
\* is a pushState exactly if that flag is set (and the store uses history),
\* whatever the store holds when the timer fires.
C31_FlagCapturedAtSchedule ==
  [][\A s \in Slots :
       /\ Schedules(s) => timeout'[s].historyChanged = HasHistoryChange(s, state'[s])
       /\ (timeout[s].pending /\ timeout'[s].pending /\ ~Schedules(s))
            => timeout'[s].historyChanged = timeout[s].historyChanged
       /\ UrlWriteStep(s) =>
            /\ (historyCalls'.pushState = historyCalls.pushState + 1)
                 <=> (timeout[s].historyChanged /\ UseHistory(binding[s]))
            /\ (historyCalls'.replaceState = historyCalls.replaceState + 1)
                 <=> ~(timeout[s].historyChanged /\ UseHistory(binding[s]))]_vars

\* A flush has just made the store's only navigation write, a pushState,
\* while the store was back at the history-key values tracked since the
\* bind: a flag computed when the timer fired would have been unset.
C31_Witness ==
  /\ lastOp = [op |-> "fire", slot |-> 1]
  /\ binding[1].status = "bound"
  /\ historyCalls = [pushState |-> 1, replaceState |-> 0]
  /\ writeCalls["url"] = 1
  /\ traversals = 0
  /\ \A i \in 1..Len(HistoryKeys(binding[1])) :
       state[1][HistoryKeys(binding[1])[i]]
         = binding[1].initialState[HistoryKeys(binding[1])[i]]

\* -------------------------------------------------------------------- C32
\* C32: when the handler of a popstate event updates a store that has no
\* timer pending and the timer this sets fires before anything else happens
\* to the store, the flush finds the tracked navigation text equal to the
\* text of the re-synced state and calls neither pushState nor replaceState;
\* the address and the session history stay as they are.
C32_NoFeedbackLoop ==
  [][\A s \in Slots :
       (FireStep(s) /\ lastResync[s].idle) =>
          /\ prevJsonStr[s]["url"] = PayloadOf(s, "url", state[s])
          /\ FlushStr(s, "url") = PayloadOf(s, "url", state[s])
          /\ historyCalls' = historyCalls
          /\ writeCalls'["url"] = writeCalls["url"]
          /\ search' = search
          /\ entries' = entries]_vars

\* The flush that followed such a re-sync has run: two flushes wrote two
\* entries, a navigation went back to the first of them and changed the
\* store, and the flush after it left the number of navigation writes at two.
C32_Witness ==
  /\ lastOp = [op |-> "fire", slot |-> 1]
  /\ traversals = 1
  /\ setCalls = 2
  /\ writeCalls["url"] = 2
  /\ historyCalls.pushState + historyCalls.replaceState = 2
  /\ index < Len(entries)
  /\ state[1]["a"] = InAddress(binding[1].name, "a")

\* -------------------------------------------------------------------- C33
\* Every declared key list of slot s, projected from st, serializes to the
\* text tracked for it.
MatchesTracked(s, st) ==
  \A t \in StorageTypes :
    Len(KeysOf(binding[s], t)) > 0
      => JSONstringify(Project(KeysOf(binding[s], t), st)) = prevJsonStr[s][t]

\* k is in none of the key lists of binding b.
Undeclared(b, k) == \A t \in StorageTypes : ~Declares(b, t, k)

\* A setState on slot s that changes a field in no key list and no other.
UnrelatedStep(s) ==
  /\ SetStep(s)
  /\ Live(s)
  /\ state'[s] # state[s]
  /\ \A k \in Fields : state'[s][k] # state[s][k] => Undeclared(binding[s], k)

\* C33 as stated: a transition after which every declared projection
\* serializes to its tracked text leaves the timer alone and writes to no
\* substrate, and so does every change of a field that is in no key set.
C33_UnrelatedChangesNoWork ==
  [][\A s \in Slots :
       /\ (SetStep(s) /\ Live(s) /\ MatchesTracked(s, state'[s]))
            => timeout'[s] = timeout[s] /\ NoSubstrateWrite
       /\ UnrelatedStep(s)
            => timeout'[s] = timeout[s] /\ NoSubstrateWrite]_vars

\* C33, amended: a transition after which every declared projection
\* serializes to its tracked text leaves the timer alone and writes to no
\* substrate.  A change of a field that is in no key set does the same when
\* the projections matched before it; when they did not, it writes nothing
\* but sets the timer (anew, if one is pending) with the full delay and the
\* new state.
C33_NoWorkWhenTrackedMatches ==
  [][\A s \in Slots :
       /\ (SetStep(s) /\ Live(s) /\ MatchesTracked(s, state'[s]))
            => timeout'[s] = timeout[s] /\ NoSubstrateWrite
       /\ (UnrelatedStep(s) /\ MatchesTracked(s, state[s]))
            => timeout'[s] = timeout[s] /\ NoSubstrateWrite
       /\ (UnrelatedStep(s) /\ ~MatchesTracked(s, state[s]))
            => /\ NoSubstrateWrite
               /\ timeout'[s].pending
               /\ timeout'[s].elapsed = 0
               /\ timeout'[s].currentState = state'[s]]_vars

\* A live store whose field b is in no key set has just had b changed while
\* its declared projection matched the tracked text: no timer, no write.
C33_Witness ==
  /\ lastOp = [op |-> "set", slot |-> 1]
  /\ Live(1)
  /\ Len(binding[1].urlKeys) > 0
  /\ Undeclared(binding[1], "b")
  /\ state[1]["b"] # binding[1].initialState["b"]
  /\ state[1]["a"] = binding[1].initialState["a"]
  /\ MatchesTracked(1, state[1])
  /\ ~timeout[1].pending
  /\ writeCalls = [t \in StorageTypes |-> 0]

\* -------------------------------------------------------------------- C34
\* The write of storage type t failed during this flush of slot s: the URL
\* writer threw, or setItem was called and the storage does not hold the
\* text of the flush.
FailedIn(s, t) ==
  IF t = "url" THEN uncaught' # uncaught
  ELSE /\ writeCalls'[t] # writeCalls[t]
       /\ (IF t = "session" THEN sessionStorage' ELSE localStorage')[binding[s].name]
            # JsonItem(FlushStr(s, t))

\* The substrate of t holds the text of this flush of slot s afterwards.
WrittenIn(s, t) ==
  IF t = "url"
  THEN search'[binding[s].name] = FinalDataStr(binding[s], FlushStr(s, "url"))
  ELSE (IF t = "session" THEN sessionStorage' ELSE localStorage')[binding[s].name]
         = JsonItem(FlushStr(s, t))

\* C34: in a flush, every declared backend whose text changed and whose own
\* write did not fail is written and its tracked snapshot and text are
\* updated, whichever other backend's write failed in the same flush.
C34_IndependentFailure ==
  [][\A s \in Slots : FireStep(s) =>
       \A t \in StorageTypes :
         (Writes(s, t) /\ ~FailedIn(s, t))
           => /\ WrittenIn(s, t)
              /\ prev'[s][t] = FlushObject(s, t)
              /\ prevJsonStr'[s][t] = JSONstringify(FlushObject(s, t))]_vars

\* -------------------------------------------------------------------- C35
\* C35: in every state, for each backend a bound store declares keys for,
\* the tracked snapshot carries for every declared key the value the
\* backend's substrate holds for it under the store's name (undefined where
\* it holds none), and the tracked text is the serialization of that
\* snapshot.
C35_TrackerHoldsPersisted ==
  \A s \in Slots :
    binding[s].status = "bound" =>
      \A t \in StorageTypes :
        /\ prevJsonStr[s][t] = JSONstringify(prev[s][t])
        /\ \A i \in 1..Len(KeysOf(binding[s], t)) :
             Get(prev[s][t], KeysOf(binding[s], t)[i])
               = Persisted(t, binding[s].name, KeysOf(binding[s], t)[i])

\* -------------------------------------------------------------------- C36
\* C36: a call of createPersistStore writes to no substrate, adds no history
\* entry and sets no timer, whatever the backends hold; a timer is first set
\* by a setState on a live store after which some declared projection
\* differs from its tracked text, and a substrate is written only by the
\* firing of such a timer.
C36_BindOnlyReads ==
  [][/\ \A s \in Slots :
          CallStep(s) => /\ NoSubstrateWrite
                         /\ entries' = entries
                         /\ timeout' = timeout
                         /\ ~timeout'[s].pending
     /\ \A s \in Slots :
          (~timeout[s].pending /\ timeout'[s].pending)
            => SetStep(s) /\ Live(s) /\ ~MatchesTracked(s, state'[s])
     /\ ~NoSubstrateWrite => \E s \in Slots : FireStep(s)]_vars

\* A store has just been bound with a state that differs from what one of
\* its declared backends holds: the URL gave a, and sessionStorage, which
\* declares a too, holds another value for it.  Nothing was written and no
\* timer is set.
C36_Witness ==
  /\ lastOp = [op |-> "bind", slot |-> 1]
  /\ binding[1].status = "bound"
  /\ Declares(binding[1], "url", "a")
  /\ Declares(binding[1], "session", "a")
  /\ Persisted("session", binding[1].name, "a") # Undefined
  /\ state[1]["a"] = Persisted("url", binding[1].name, "a")
  /\ state[1]["a"] # Persisted("session", binding[1].name, "a")
  /\ state[1] # binding[1].initializer
  /\ ~timeout[1].pending
  /\ writeCalls = [t \in StorageTypes |-> 0]

\* -------------------------------------------------------------------- C37
\* The call of createPersistStore made in this step on slot s threw.
RejectStep(s) == binding[s].status = "unbound" /\ binding'[s].status = "threw"

\* C37: a call of createPersistStore that throws a name conflict leaves the
\* three registry sets as they were; a category the call declared keys for
\* and in which the name was free does not hold the name afterwards.
C37_RejectedBindChangesNothing ==
  [][\A s \in Slots : RejectStep(s) =>
       /\ registeredUrlStoreNames' = registeredUrlStoreNames
       /\ registeredLocalStoreNames' = registeredLocalStoreNames
       /\ registeredSessionStoreNames' = registeredSessionStoreNames
       /\ \A t \in StorageTypes :
            (Len(KeysOf(binding'[s], t)) > 0 /\ binding'[s].name \notin Registered(t))
              => binding'[s].name \notin Registered(t)']_vars

\* A call that declared URL and localStorage keys was rejected for the
\* localStorage category while the name was free for URLs, and a later call
\* bound the same name for the URL category.
C37_Witness ==
  \E s1, s2 \in Slots :
    /\ s1 < s2
    /\ binding[s1].status = "threw"
    /\ binding[s1].error = "localStorage store name conflict"
    /\ Len(binding[s1].urlKeys) > 0
    /\ Len(binding[s1].localKeys) > 0
    /\ binding[s2].status = "bound"
    /\ binding[s2].name = binding[s1].name
    /\ Len(binding[s2].urlKeys) > 0

\* -------------------------------------------------------------------- C38
\* Storage type t is not in the priority list of binding b, which declares
\* keys for it.
Omitted(b, t) == Len(KeysOf(b, t)) > 0 /\ ~Includes(b.priority, t)

\* k is declared for t and for no other storage type.
OnlyIn(b, t, k) ==
  Declares(b, t, k) /\ \A u \in StorageTypes \ {t} : ~Declares(b, u, k)

\* C38: a backend that the priority list omits is not read at bind: a key
\* declared for that backend only starts at its initializer value whatever
\* the backend holds, and an omitted URL backend leaves the parameter cache
\* untouched.  The backend is written all the same: a transition of the live
\* store that changes such a key away from its tracked value sets the timer,
\* and a flush whose text for the backend differs from the tracked text
\* calls the backend's substrate and leaves the text there.
C38_OmittedBackendNotRead ==
  [][\A s \in Slots : \A t \in StorageTypes :
       /\ (BindStep(s) /\ Omitted(binding'[s], t))
            => /\ \A k \in Fields :
                    OnlyIn(binding'[s], t, k)
                      => state'[s][k] = binding'[s].initializer[k]
               /\ t = "url"
                    => cachedParams' = cachedParams /\ cachedUrlSearch' = cachedUrlSearch
       /\ (SetStep(s) /\ Live(s) /\ Omitted(binding[s], t))
            => \A k \in Fields :
                 ( /\ OnlyIn(binding[s], t, k)
                   /\ state'[s][k] # state[s][k]
                   /\ state'[s][k] # Get(prev[s][t], k) )
                 => timeout'[s].pending /\ timeout'[s].currentState = state'[s]
       /\ (FireStep(s) /\ Omitted(binding[s], t) /\ FlushStr(s, t) # prevJsonStr[s][t])
            => /\ writeCalls'[t] = writeCalls[t] + 1
               /\ WrittenIn(s, t)]_vars

\* A store has just been bound with a priority list that leaves out the URL
\* while the address holds a value for a key declared for the URL only: the
\* key has its initializer value, not the persisted one.
C38_Witness ==
  /\ lastOp = [op |-> "bind", slot |-> 1]
  /\ binding[1].status = "bound"
  /\ Omitted(binding[1], "url")
  /\ OnlyIn(binding[1], "url", "a")
  /\ Persisted("url", binding[1].name, "a") # Undefined
  /\ state[1]["a"] = binding[1].initializer["a"]
  /\ state[1]["a"] # Persisted("url", binding[1].name, "a")

\* -------------------------------------------------------------------- C39
\* C39: when the handler of a popstate event has changed a field of a store
\* and the store's timer fires next, sessionStorage and localStorage hold,
\* for every changed field they declare, the value the store was restored
\* to, and the flush calls neither pushState nor replaceState.
C39_ResyncPropagates ==
  [][\A s \in Slots :
       (FireStep(s) /\ lastResync[s].changed # {}) =>
          /\ \A t \in {"session", "local"} : \A k \in lastResync[s].changed :
               Declares(binding[s], t, k) =>
                 ReadFrom((IF t = "session" THEN sessionStorage'
                           ELSE localStorage')[binding[s].name], <<k>>)[k]
                   = state[s][k]
          /\ historyCalls' = historyCalls
          /\ search' = search]_vars

====
